---- MODULE Spec2Model ----
(***************************************************************************)
(* Verification model of the heightfield-to-solid mesh engine of           *)
(* monkey-pic: the mesh builders, the STL encoders and the volume          *)
(* statistics.  JavaScript numbers are modelled as exact rationals         *)
(* <<numerator, denominator>> (denominator 0 = NaN); float32 storage is    *)
(* modelled by its IEEE-754 little-endian bytes.                           *)
(***************************************************************************)
EXTENDS Integers, Sequences, FiniteSets, TLC

VARIABLES
  \* ---- buildWatertightFromDepth (component relief preview) ----
  tw, th,          \* grid size handed to the builder
  depth,           \* depth map, [0 .. tw*th-1 -> rational in [0,1]]
  bOpts,           \* component signals and ReliefOptions read by the builder
  positions,       \* positions[] : sequence of <<x, y, z>>
  indices,         \* indices[]   : flat sequence of vertex indices
  bpc,             \* position inside buildWatertightFromDepth
  \* ---- toReliefSTL: heightmapToMesh, then StlGeneratorService.fromMesh ----
  heightmap,       \* Float32Array handed to heightmapToMesh
  rParams,         \* ReliefParams: widthMM, baseMM, maxHeightMM, depthMultiplier
  format,          \* opts.format of fromMesh
  mesh,            \* { vertices, faces } handed to fromMesh
  stl,             \* encoded document returned by fromMesh
  stats,           \* { faces, verts, volumeCM3 } returned by fromMesh
  rpc,             \* position inside toReliefSTL / outcome of fromMesh
  \* ---- STLGenerator.generateBinarySTL ----
  tmd,             \* TriangleMeshData handed to the generator
  blob,            \* bytes of the returned Blob
  gpc,             \* position inside / outcome of the STLGenerator call
  report,          \* { valid, errors } returned by STLGenerator.validateMesh
  gFormat,         \* params.format handed to generateOptimalSTL
  optimal,         \* { format, estimatedSize } returned by generateOptimalSTL
  gi, gBufferIndex, \* loop variables of the encoder generateOptimalSTL runs
  \* ---- imageToEnhancedStl ----
  img,             \* decoded image: width and height
  gray,            \* gray[] after the three heightmap passes
  eOpts,           \* EnhancedOptions
  lines,           \* facets pushed to lines[], in order
  epc,             \* position inside imageToEnhancedStl
  \* ---- AdvancedConverterService.postProcess ----
  ppMesh,          \* the caller's mesh: contents of its vertices and faces arrays
  ppBefore,        \* the contents of the caller's arrays when postProcess was called
  ppOpts,          \* opts of postProcess
  processedMesh,   \* processedMesh; shared: its vertices are the caller's array
  taubin,          \* locals of applyTaubinSmoothing and applyLaplacianStep
  finalStats,      \* result of validateMesh
  ppc,             \* position inside / outcome of postProcess
  \* ---- ConversionEngineService.parseOBJ ----
  objLines,        \* objContent split into lines, each line into its tokens
  oi,              \* index of the next line
  oVertices,       \* vertices[]
  oFaces,          \* faces[]
  vertexCount, faceCount, invalidFaceCount,
  opc,             \* position inside / outcome of parseOBJ
  \* ---- converter component: 3D viewer ----
  previewMode,     \* previewMode()
  threeInit,       \* _renderer, _scene and _camera exist
  pendingInit,     \* ensureThree promises of setPreviewMode('3d') not yet settled
  scene,           \* the meshes of _scene; _mesh is the mesh it holds
  raf,             \* _raf is set: a frame of the render loop is requested
  renders,         \* the scenes handed to renderer.render by the last handler
  ready3D,         \* ready3D()
  viewError,       \* error() as set by the viewer
  \* ---- converter component: quality selector ----
  model3dQualityLevel, reliefQualityThreshold,
  model3dParams,   \* the last result of getModel3DParams
  \* ---- converter component: upload() of the relief tab ----
  upFile,          \* file() is set
  reliefLoading, reliefProcessActive, lastConversion,
  reliefDownloadUrl, \* reliefDownloadUrl() is set
  loadingProgress, loadingInterval,
  inflight,        \* convertImage requests that have not delivered yet
  timers,          \* completion timeouts that have not fired yet
  upError,         \* error() as set by upload
  \* ---- backend handler of /convert-hq ----
  hqReq,           \* the uploaded file and the fields of the request
  pythonHqEnabled, \* PYTHON_HQ_ENABLED
  tmpDir,          \* the directory made by Deno.makeTempDir exists
  outFile,         \* the Python stage wrote outPath
  hqStatus,        \* ctx.response.status; 0: not set
  hpc,             \* position inside / outcome of the handler
  \* ---- converter component guarded by isLoading ----
  gFile,           \* file() is set
  gMode,           \* previewMode()
  isLoading,
  running,         \* the conversions awaited, in the order they started
  previews,        \* preview renders awaited
  gDownloadUrl, gLastConversion, gError

buildVars == <<tw, th, depth, bOpts, positions, indices, bpc>>

reliefVars == <<heightmap, rParams, format, mesh, stl, stats, rpc>>

genVars == <<tmd, blob, gpc, report, gFormat, optimal, gi, gBufferIndex>>

enhVars == <<img, gray, eOpts, lines, epc>>

ppVars == <<ppMesh, ppBefore, ppOpts, processedMesh, taubin, finalStats, ppc>>

objVars == <<objLines, oi, oVertices, oFaces, vertexCount, faceCount, invalidFaceCount, opc>>

engineVars == <<buildVars, reliefVars, genVars, enhVars, ppVars, objVars>>

viewerVars == <<previewMode, threeInit, pendingInit, scene, raf, renders, ready3D, viewError>>

qualityVars == <<model3dQualityLevel, reliefQualityThreshold, model3dParams>>

uploadVars == <<upFile, reliefLoading, reliefProcessActive, lastConversion,
                reliefDownloadUrl, loadingProgress, loadingInterval, inflight,
                timers, upError>>

hqVars == <<hqReq, pythonHqEnabled, tmpDir, outFile, hqStatus, hpc>>

guardVars == <<gFile, gMode, isLoading, running, previews, gDownloadUrl,
               gLastConversion, gError>>

cmpVars == <<viewerVars, qualityVars, uploadVars, hqVars, guardVars>>

vars == <<engineVars, cmpVars>>

----------------------------------------------------------------------------
(* Bounds of the model *)

MaxDim == 4        \* largest grid width / height handed to the builder
MaxN == 3          \* largest heightmap side handed to heightmapToMesh
MaxTris == 3       \* most triangles of a mesh handed directly to an encoder
MaxG == 3          \* largest width / height of an image handed to imageToEnhancedStl

----------------------------------------------------------------------------
(* JavaScript number arithmetic on exact rationals *)

NaN == <<0, 0>>

Abs(x) == IF x < 0 THEN -x ELSE x

RECURSIVE GCD(_, _)
GCD(a, b) == IF b = 0 THEN a ELSE GCD(b, a % b)

IsNaN(r) == r[2] = 0

\* the rational n/d in lowest terms with a positive denominator; x/0 arises
\* in the modelled code only as 0/0, which is NaN
Rat(n, d) ==
  IF d = 0 THEN NaN
  ELSE LET g == GCD(Abs(n), Abs(d))
           s == IF d < 0 THEN -1 ELSE 1
       IN  <<(s * n) \div g, (s * d) \div g>>

Num(n) == <<n, 1>>

RAdd(a, b) ==
  IF IsNaN(a) \/ IsNaN(b) THEN NaN
  ELSE LET g == GCD(a[2], b[2])
       IN  Rat(a[1] * (b[2] \div g) + b[1] * (a[2] \div g), (a[2] \div g) * b[2])

RSub(a, b) ==
  IF IsNaN(a) \/ IsNaN(b) THEN NaN
  ELSE LET g == GCD(a[2], b[2])
       IN  Rat(a[1] * (b[2] \div g) - b[1] * (a[2] \div g), (a[2] \div g) * b[2])

RMul(a, b) ==
  IF IsNaN(a) \/ IsNaN(b) THEN NaN
  ELSE LET g1 == GCD(Abs(a[1]), b[2])
           g2 == GCD(Abs(b[1]), a[2])
       IN  Rat((a[1] \div g1) * (b[1] \div g2), (a[2] \div g2) * (b[2] \div g1))

RDiv(a, b) == IF IsNaN(a) \/ IsNaN(b) THEN NaN
              ELSE RMul(a, Rat(b[2], b[1]))

RNeg(a) == IF IsNaN(a) THEN NaN ELSE <<-a[1], a[2]>>

\* Math.abs
RAbs(a) == IF IsNaN(a) THEN NaN ELSE <<Abs(a[1]), a[2]>>

RLt(a, b) == ~IsNaN(a) /\ ~IsNaN(b) /\ a[1] * b[2] < b[1] * a[2]

\* Math.max: NaN if either argument is NaN
RMax(a, b) == IF IsNaN(a) \/ IsNaN(b) THEN NaN
              ELSE IF RLt(a, b) THEN b ELSE a

\* Math.floor
RFloor(a) == IF IsNaN(a) THEN NaN ELSE <<a[1] \div a[2], 1>>

\* JavaScript truthiness of a number: 0 and NaN are falsy  (x || y)
ROr(a, b) == IF IsNaN(a) \/ a[1] = 0 THEN b ELSE a

----------------------------------------------------------------------------
(* float32 storage: IEEE-754 single precision, little-endian bytes.        *)
(* Signed zero is not modelled (a zero is stored as +0.0); every value the *)
(* model stores lies in the normal exponent range.                         *)

RECURSIVE Pow2(_)
Pow2(k) == IF k = 0 THEN 1 ELSE 2 * Pow2(k - 1)

\* <<p, q, e>> with q <= p < 2q and p/q * 2^e equal to the argument p/q * 2^e
RECURSIVE NormExp(_, _, _)
NormExp(p, q, e) ==
  IF p >= 2 * q THEN NormExp(p, 2 * q, e + 1)
  ELSE IF p < q THEN NormExp(2 * p, q, e - 1)
  ELSE <<p, q, e>>

\* k further mantissa bits of r/q (r < q) by long division: <<bits, remainder>>
RECURSIVE MantBits(_, _, _, _)
MantBits(r, q, k, acc) ==
  IF k = 0 THEN <<acc, r>>
  ELSE IF 2 * r >= q THEN MantBits(2 * r - q, q, k - 1, 2 * acc + 1)
  ELSE MantBits(2 * r, q, k - 1, 2 * acc)

\* sign, biased exponent and 23-bit mantissa of the float32 nearest to a
\* non-zero rational (round to nearest, ties to even)
F32Fields(a) ==
  LET ne == NormExp(Abs(a[1]), a[2], 0)
      mb == MantBits(ne[1] - ne[2], ne[2], 23, 0)
      up == \/ 2 * mb[2] > ne[2]
            \/ (2 * mb[2] = ne[2] /\ mb[1] % 2 = 1)
      m1 == IF up THEN mb[1] + 1 ELSE mb[1]
      m  == IF m1 = 8388608 THEN 0 ELSE m1
      e  == IF m1 = 8388608 THEN ne[3] + 1 ELSE ne[3]
  IN  <<IF a[1] < 0 THEN 1 ELSE 0, e + 127, m>>

\* the 4 bytes, lowest address first, that storing the number as a
\* little-endian float32 writes (undefined and NaN store the quiet NaN)
F32LE(a) ==
  IF IsNaN(a) THEN <<0, 0, 192, 127>>
  ELSE IF a[1] = 0 THEN <<0, 0, 0, 0>>
  ELSE LET f == F32Fields(a)
       IN  <<f[3] % 256,
             (f[3] \div 256) % 256,
             (f[2] % 2) * 128 + f[3] \div 65536,
             f[1] * 128 + f[2] \div 2>>

\* the number a little-endian float32 reader obtains from 4 bytes
DecodeF32(b) ==
  LET sgn == b[4] \div 128
      ex  == (b[4] % 128) * 2 + b[3] \div 128
      m   == (b[3] % 128) * 65536 + b[2] * 256 + b[1]
      mag == IF ex >= 150 THEN Num((8388608 + m) * Pow2(ex - 150))
             ELSE Rat(8388608 + m, Pow2(150 - ex))
  IN  IF ex = 255 THEN NaN
      ELSE IF ex = 0 THEN Num(0)
      ELSE IF sgn = 1 THEN RNeg(mag) ELSE mag

\* the 4 bytes of a little-endian uint32
U32LE(n) == <<n % 256, (n \div 256) % 256, (n \div 65536) % 256, (n \div 16777216) % 256>>

DecodeU32(b) == b[1] + 256 * b[2] + 65536 * b[3] + 16777216 * b[4]

\* largest s with s * s <= n, by bisection on lo <= s < hi
RECURSIVE ISqrtIn(_, _, _)
ISqrtIn(n, lo, hi) ==
  IF hi - lo <= 1 THEN lo
  ELSE LET mid == (lo + hi) \div 2
       IN  IF mid * mid <= n THEN ISqrtIn(n, mid, hi) ELSE ISqrtIn(n, lo, mid)

\* <<n * 4^k, 2^k>> for the largest k that keeps n * 4^k below 2^28
RECURSIVE SqrtScale(_, _)
SqrtScale(n, s) == IF n * 4 >= 268435456 THEN <<n, s>> ELSE SqrtScale(n * 4, s * 2)

\* Math.sqrt of a non-negative rational, to about 14 significant bits
RSqrt(a) ==
  IF IsNaN(a) \/ a[1] < 0 THEN NaN
  ELSE IF a[1] = 0 THEN Num(0)
  ELSE LET sc == SqrtScale(a[1] * a[2], 1)
       IN  Rat(ISqrtIn(sc[1], 0, 16385), sc[2] * a[2])

LCM(a, b) == (a \div GCD(a, b)) * b

\* Math.hypot(x, y, z): the square root is taken of the numerators over the
\* common denominator
Hypot(x, y, z) ==
  IF IsNaN(x) \/ IsNaN(y) \/ IsNaN(z) THEN NaN
  ELSE LET dd == LCM(x[2], LCM(y[2], z[2]))
           xn == x[1] * (dd \div x[2])
           yn == y[1] * (dd \div y[2])
           zn == z[1] * (dd \div z[2])
       IN  RDiv(RSqrt(Num(xn * xn + yn * yn + zn * zn)), Num(dd))

----------------------------------------------------------------------------
(* Variables of the components a specification does not exercise *)

NoMesh == [vertices |-> <<>>, faces |-> <<>>]
NoStl == [format |-> "none", bytes |-> <<>>, text |-> <<>>]
NoStats == [faces |-> 0, verts |-> 0, volumeCM3 |-> Num(0)]
NoParams == [widthMM |-> 0, baseMM |-> 0, maxHeightMM |-> 0, depthMultiplier |-> 0]

ReliefIdle ==
  /\ heightmap = <<>>
  /\ rParams = NoParams
  /\ format = "binary"
  /\ mesh = NoMesh
  /\ stl = NoStl
  /\ stats = NoStats
  /\ rpc = "idle"

NoTmd == [vertices |-> <<>>, indices |-> <<>>, triangleCount |-> 0,
          compressionRatio |-> Num(0)]

NoReport == [valid |-> FALSE, errors |-> <<>>]

NoOptimal == [format |-> "none", estimatedSize |-> 0]

GenIdle ==
  /\ tmd = NoTmd
  /\ blob = <<>>
  /\ gpc = "idle"
  /\ report = NoReport
  /\ gFormat = "none"
  /\ optimal = NoOptimal
  /\ gi = 0
  /\ gBufferIndex = Num(0)

NoEnhancedOptions ==
  [widthMM |-> 0, baseMM |-> 0, maxHeightMM |-> 0, sampleMax |-> 0,
   volumeEnhancement |-> [enabled |-> FALSE, depthMultiplier |-> Num(0),
                          contrastCurve |-> 0],
   textureEnhancement |-> [enabled |-> FALSE, microTexture |-> FALSE],
   advancedGeometry |-> [adaptiveSubdivision |-> FALSE, organicShaping |-> FALSE,
                         overhangsSupport |-> FALSE]]

EnhIdle ==
  /\ img = [width |-> 0, height |-> 0]
  /\ gray = <<>>
  /\ eOpts = NoEnhancedOptions
  /\ lines = <<>>
  /\ epc = "idle"

BuildIdle ==
  /\ tw = 0
  /\ th = 0
  /\ depth = <<>>
  /\ bOpts = [widthMMSig |-> 0, baseMMSig |-> 0, maxHeightMMSig |-> 0,
              maxHeightMM |-> 0, depthMultiplier |-> 0]
  /\ positions = <<>>
  /\ indices = <<>>
  /\ bpc = "idle"

NoOptions ==
  [makeManifold |-> FALSE, closeHoles |-> FALSE, fixSelfIntersections |-> FALSE,
   unifyNormals |-> FALSE, scaleToWidthMM |-> Num(0), addBaseMM |-> Num(0),
   center |-> FALSE, targetFaces |-> NaN, taubinIterations |-> NaN,
   creaseAngle |-> NaN, enableAdvancedSmoothing |-> FALSE,
   enableQuadricDecimation |-> FALSE]

NoTaubin == [vertices |-> <<>>, adjacency |-> <<>>, iterations |-> NaN, iter |-> 0,
             tempVertices |-> <<>>, newVertices |-> <<>>, factor |-> NaN, i |-> 0]

NoFinalStats == [manifold |-> FALSE, minThickness |-> Num(0)]

PPIdle ==
  /\ ppMesh = NoMesh
  /\ ppBefore = NoMesh
  /\ ppOpts = NoOptions
  /\ processedMesh = [vertices |-> <<>>, faces |-> <<>>, shared |-> FALSE]
  /\ taubin = NoTaubin
  /\ finalStats = NoFinalStats
  /\ ppc = "idle"

ObjIdle ==
  /\ objLines = <<>>
  /\ oi = 0
  /\ oVertices = <<>>
  /\ oFaces = <<>>
  /\ vertexCount = 0
  /\ faceCount = 0
  /\ invalidFaceCount = 0
  /\ opc = "idle"

EngineIdle ==
  /\ BuildIdle
  /\ ReliefIdle
  /\ GenIdle
  /\ EnhIdle
  /\ PPIdle
  /\ ObjIdle

ViewIdle ==
  /\ previewMode = "image"
  /\ threeInit = FALSE
  /\ pendingInit = 0
  /\ scene = <<>>
  /\ raf = FALSE
  /\ renders = <<>>
  /\ ready3D = FALSE
  /\ viewError = "none"
  /\ model3dQualityLevel = "alta"
  /\ reliefQualityThreshold = Rat(3, 4)
  /\ model3dParams = [targetFaces |-> 0]

UploadIdle ==
  /\ upFile = FALSE
  /\ reliefLoading = FALSE
  /\ reliefProcessActive = FALSE
  /\ lastConversion = "none"
  /\ reliefDownloadUrl = FALSE
  /\ loadingProgress = 0
  /\ loadingInterval = FALSE
  /\ inflight = 0
  /\ timers = 0
  /\ upError = "none"

HqIdle ==
  /\ hqReq = [file |-> FALSE, contentType |-> "none", format |-> "stl"]
  /\ pythonHqEnabled = FALSE
  /\ tmpDir = FALSE
  /\ outFile = FALSE
  /\ hqStatus = 0
  /\ hpc = "idle"

GuardIdle ==
  /\ gFile = FALSE
  /\ gMode = "image"
  /\ isLoading = FALSE
  /\ running = <<>>
  /\ previews = 0
  /\ gDownloadUrl = "none"
  /\ gLastConversion = "none"
  /\ gError = "none"

CmpIdle ==
  /\ ViewIdle
  /\ UploadIdle
  /\ HqIdle
  /\ GuardIdle

----------------------------------------------------------------------------
(* buildWatertightFromDepth *)

\* depth maps handed to the builder: flat, checkerboard, a single peak
DepthPatterns == {"flat", "checker", "peak"}

DepthValue(p, i, j) ==
  CASE p = "flat"    -> Rat(1, 2)
    [] p = "checker" -> Num((i + j) % 2)
    [] p = "peak"    -> IF i = 0 /\ j = 0 THEN Num(1) ELSE Num(0)

DepthMap(p, w, h) == [k \in 0 .. (w * h - 1) |-> DepthValue(p, k % w, k \div w)]

\* values of the widthMM(), baseMM(), maxHeightMM() signals and of
\* opts.maxHeightMM, opts.depthMultiplier (0 stands for an absent option)
BuildOptions ==
  [widthMMSig : {4, 40}, baseMMSig : {0, 2}, maxHeightMMSig : {8},
   maxHeightMM : {0, 6}, depthMultiplier : {0, 2}]

widthMM == RMax(Num(10), Num(bOpts.widthMMSig))
heightMM == RMax(Num(10), RFloor(RMul(widthMM, Rat(th, tw))))
\* a loop bound that runs over the grid points instead of the segments
segXPoints == tw

segX == tw - 1
segY == th - 1
vxCount == tw * th
baseMM == RMax(Num(0), Num(bOpts.baseMMSig))
maxHeight == ROr(Num(bOpts.maxHeightMM), Num(bOpts.maxHeightMMSig))
depthScale == RMax(Rat(1, 10), ROr(Num(bOpts.depthMultiplier), Num(1)))

xs(i) == RAdd(RDiv(RNeg(widthMM), Num(2)), RMul(Rat(i, tw - 1), widthMM))
ys(j) == RAdd(RDiv(RNeg(heightMM), Num(2)), RMul(Rat(j, th - 1), heightMM))

TopVertex(i, j) ==
  LET h == depth[j * tw + i]
      z == RAdd(baseMM, RMul(RMul(h, maxHeight), depthScale))
  IN  <<xs(i), ys(j), z>>

BottomVertex(i, j) == <<xs(i), ys(j), Num(0)>>

idxTop(i, j) == j * tw + i

idxBot(i, j) == vxCount + j * tw + i

\* for (j < nj) for (i < ni) push(...Q(i, j)) with six indices per iteration
GridLoop(nj, ni, Q(_, _)) ==
  [k \in 1 .. (6 * ni * nj) |->
     LET q == (k - 1) \div 6 IN Q(q % ni, q \div ni)[((k - 1) % 6) + 1]]

\* for (i < n) push(...Q(i)) with six indices per iteration
EdgeLoop(n, Q(_)) ==
  [k \in 1 .. (6 * n) |-> Q((k - 1) \div 6)[((k - 1) % 6) + 1]]

\* for (j < th) for (i < tw) pushVertex(V(i, j))
VertexLoop(V(_, _)) ==
  [k \in 1 .. (tw * th) |-> V((k - 1) % tw, (k - 1) \div tw)]

TopQuad(i, j) ==
  LET a == idxTop(i, j)
      b == idxTop(i + 1, j)
      c == idxTop(i, j + 1)
      d == idxTop(i + 1, j + 1)
  IN  <<a, b, d, a, d, c>>

BottomQuad(i, j) ==
  LET a == idxBot(i, j)
      b == idxBot(i + 1, j)
      c == idxBot(i, j + 1)
      d == idxBot(i + 1, j + 1)
  IN  <<a, d, b, a, c, d>>

TopEdgeQuad(i) ==
  LET tA == idxTop(i, 0)
      tB == idxTop(i + 1, 0)
      bA == idxBot(i, 0)
      bB == idxBot(i + 1, 0)
  IN  <<tA, bA, bB, tA, bB, tB>>

BottomEdgeQuad(i) ==
  LET tA == idxTop(i, th - 1)
      tB == idxTop(i + 1, th - 1)
      bA == idxBot(i, th - 1)
      bB == idxBot(i + 1, th - 1)
  IN  <<tB, bB, bA, tB, bA, tA>>

\* the left wall wound like the right wall (copied without reversing)
LeftEdgeQuadSameWinding(j) ==
  LET tA == idxTop(0, j)
      tB == idxTop(0, j + 1)
      bA == idxBot(0, j)
      bB == idxBot(0, j + 1)
  IN  <<tA, bA, bB, tA, bB, tB>>

LeftEdgeQuad(j) ==
  LET tA == idxTop(0, j)
      tB == idxTop(0, j + 1)
      bA == idxBot(0, j)
      bB == idxBot(0, j + 1)
  IN  <<tA, bB, bA, tA, tB, bB>>

\* the right wall built on column tw - 2 instead of tw - 1
RightEdgeQuadOffByOne(j) ==
  LET tA == idxTop(tw - 2, j)
      tB == idxTop(tw - 2, j + 1)
      bA == idxBot(tw - 2, j)
      bB == idxBot(tw - 2, j + 1)
  IN  <<tA, bA, bB, tA, bB, tB>>

RightEdgeQuad(j) ==
  LET tA == idxTop(tw - 1, j)
      tB == idxTop(tw - 1, j + 1)
      bA == idxBot(tw - 1, j)
      bB == idxBot(tw - 1, j + 1)
  IN  <<tA, bA, bB, tA, bB, tB>>

InitBuild ==
  /\ tw \in 1 .. MaxDim
  /\ th \in 1 .. MaxDim
  /\ \E p \in DepthPatterns : depth = DepthMap(p, tw, th)
  /\ bOpts \in BuildOptions
  /\ positions = <<>>
  /\ indices = <<>>
  /\ bpc = "topVertices"
  /\ ReliefIdle
  /\ GenIdle
  /\ EnhIdle
  /\ PPIdle
  /\ ObjIdle
  /\ CmpIdle

BuildTopVertices ==
  /\ bpc = "topVertices"
  /\ positions' = positions \o VertexLoop(TopVertex)
  /\ bpc' = "bottomVertices"
  /\ UNCHANGED <<tw, th, depth, bOpts, indices, reliefVars, genVars, enhVars, ppVars, objVars, cmpVars>>

BuildBottomVertices ==
  /\ bpc = "bottomVertices"
  /\ positions' = positions \o VertexLoop(BottomVertex)
  /\ bpc' = "topFaces"
  /\ UNCHANGED <<tw, th, depth, bOpts, indices, reliefVars, genVars, enhVars, ppVars, objVars, cmpVars>>

BuildTopFaces ==
  /\ bpc = "topFaces"
  /\ indices' = indices \o GridLoop(segY, segX, TopQuad)
  /\ bpc' = "bottomFaces"
  /\ UNCHANGED <<tw, th, depth, bOpts, positions, reliefVars, genVars, enhVars, ppVars, objVars, cmpVars>>

BuildBottomFaces ==
  /\ bpc = "bottomFaces"
  /\ indices' = indices \o GridLoop(segY, segX, BottomQuad)
  /\ bpc' = "topEdge"
  /\ UNCHANGED <<tw, th, depth, bOpts, positions, reliefVars, genVars, enhVars, ppVars, objVars, cmpVars>>

BuildTopEdge ==
  /\ bpc = "topEdge"
  /\ indices' = indices \o EdgeLoop(segX, TopEdgeQuad)
  /\ bpc' = "bottomEdge"
  /\ UNCHANGED <<tw, th, depth, bOpts, positions, reliefVars, genVars, enhVars, ppVars, objVars, cmpVars>>

BuildBottomEdge ==
  /\ bpc = "bottomEdge"
  /\ indices' = indices \o EdgeLoop(segX, BottomEdgeQuad)
  /\ bpc' = "leftEdge"
  /\ UNCHANGED <<tw, th, depth, bOpts, positions, reliefVars, genVars, enhVars, ppVars, objVars, cmpVars>>

BuildLeftEdge ==
  /\ bpc = "leftEdge"
  /\ indices' = indices \o EdgeLoop(segY, LeftEdgeQuad)
  /\ bpc' = "rightEdge"
  /\ UNCHANGED <<tw, th, depth, bOpts, positions, reliefVars, genVars, enhVars, ppVars, objVars, cmpVars>>

BuildRightEdge ==
  /\ bpc = "rightEdge"
  /\ indices' = indices \o EdgeLoop(segY, RightEdgeQuad)
  /\ bpc' = "done"
  /\ UNCHANGED <<tw, th, depth, bOpts, positions, reliefVars, genVars, enhVars, ppVars, objVars, cmpVars>>

NextBuild ==
  \/ BuildTopVertices
  \/ BuildBottomVertices
  \/ BuildTopFaces
  \/ BuildBottomFaces
  \/ BuildTopEdge
  \/ BuildBottomEdge
  \/ BuildLeftEdge
  \/ BuildRightEdge

SpecBuild == InitBuild /\ [][NextBuild]_vars

----------------------------------------------------------------------------
(* Edge incidence of an indexed triangle list *)

TriCount(idx) == Len(idx) \div 3

\* the 3 directed edges of every triangle, in winding order
DirectedEdges(idx) ==
  [p \in 1 .. (3 * TriCount(idx)) |->
     LET k == (p - 1) \div 3
         s == (p - 1) % 3
     IN  <<idx[3 * k + s + 1], idx[3 * k + ((s + 1) % 3) + 1]>>]

Undirected(e) == IF e[1] <= e[2] THEN e ELSE <<e[2], e[1]>>

\* number of triangle edges lying on the undirected edge e
EdgeUse(idx, e) ==
  LET de == DirectedEdges(idx)
  IN  Cardinality({p \in DOMAIN de : Undirected(de[p]) = Undirected(e)})

\* number of triangles traversing the edge in the direction of e
DirectedUse(idx, e) ==
  LET de == DirectedEdges(idx)
  IN  Cardinality({p \in DOMAIN de : de[p] = e})

EveryEdgeSharedByTwo(idx) ==
  LET de == DirectedEdges(idx)
  IN  \A p \in DOMAIN de : EdgeUse(idx, de[p]) = 2

EveryEdgeTraversedOncePerDirection(idx) ==
  LET de == DirectedEdges(idx)
  IN  \A p \in DOMAIN de :
        /\ DirectedUse(idx, de[p]) = 1
        /\ DirectedUse(idx, <<de[p][2], de[p][1]>>) = 1

\* C1: for every tw x th grid with tw >= 2 and th >= 2 and every depth
\* content, every undirected edge of the mesh built by
\* buildWatertightFromDepth is shared by exactly 2 triangles.
C1_Watertight ==
  (bpc = "done" /\ tw >= 2 /\ th >= 2) => EveryEdgeSharedByTwo(indices)

C1_Witness ==
  /\ bpc = "done" /\ tw = 3 /\ th = 2
  /\ TriCount(indices) = 20
  /\ EveryEdgeSharedByTwo(indices)

\* C2: in the built mesh the two triangles sharing an edge traverse it in
\* opposite directions: every directed edge occurs exactly once and its
\* reverse occurs exactly once.
C2_OppositeWinding ==
  (bpc = "done" /\ tw >= 2 /\ th >= 2)
     => EveryEdgeTraversedOncePerDirection(indices)

C2_Witness ==
  /\ bpc = "done" /\ tw = 2 /\ th = 3
  /\ DirectedUse(indices, <<idxTop(0, 0), idxBot(0, 0)>>) = 1
  /\ DirectedUse(indices, <<idxBot(0, 0), idxTop(0, 0)>>) = 1

\* C21: for a w x h grid the built mesh has 2*(w-1)*(h-1) top triangles,
\* 2*(w-1)*(h-1) bottom triangles and 2 triangles per boundary segment on
\* each of the four walls: 4*(w-1)*(h-1) + 4*((w-1)+(h-1)) in total, 60 for
\* a 4 x 4 grid.
C21_TriangleCount ==
  LET q == (tw - 1) * (th - 1)
  IN  /\ bpc = "bottomFaces" => Len(indices) = 3 * (2 * q)
      /\ bpc = "topEdge" => Len(indices) = 3 * (4 * q)
      /\ bpc = "bottomEdge" => Len(indices) = 3 * (4 * q + 2 * (tw - 1))
      /\ bpc = "leftEdge" => Len(indices) = 3 * (4 * q + 4 * (tw - 1))
      /\ bpc = "rightEdge" => Len(indices) = 3 * (4 * q + 4 * (tw - 1) + 2 * (th - 1))
      /\ bpc = "done" =>
           /\ Len(indices) = 3 * (4 * q + 4 * ((tw - 1) + (th - 1)))
           /\ (tw = 4 /\ th = 4) => TriCount(indices) = 60

C21_Witness ==
  /\ bpc = "done" /\ tw = 4 /\ th = 4
  /\ TriCount(indices) = 60

\* C23: every top vertex (i, j) lies at x = (i/(w-1) - 0.5) * widthMM and
\* z = baseMM + height(i,j) * maxHeightMM, and the matching bottom vertex at
\* the same x, y with z = 0, for every widthMM > 0, baseMM >= 0 and
\* maxHeightMM > 0.
C23_VertexPlacement ==
  (bpc = "done" /\ tw >= 2 /\ th >= 2) =>
    \A i \in 0 .. (tw - 1), j \in 0 .. (th - 1) :
      LET top == positions[idxTop(i, j) + 1]
          bot == positions[idxBot(i, j) + 1]
      IN  /\ top[1] = RMul(RSub(Rat(i, tw - 1), Rat(1, 2)), Num(bOpts.widthMMSig))
          /\ top[3] = RAdd(Num(bOpts.baseMMSig),
                           RMul(depth[j * tw + i],
                                ROr(Num(bOpts.maxHeightMM), Num(bOpts.maxHeightMMSig))))
          /\ bot[1] = top[1]
          /\ bot[2] = top[2]
          /\ bot[3] = Num(0)

----------------------------------------------------------------------------
(* Typed-array reads of a mesh *)

\* f[i] used as a number: an index past the end reads undefined, and
\* undefined * 3 is NaN
FaceAt(f, i) == IF i < Len(f) THEN Num(f[i + 1]) ELSE NaN

\* v[a + off]: undefined (NaN once stored or used in arithmetic) when a is
\* NaN or the element does not exist
VAt(v, a, off) ==
  IF IsNaN(a) THEN NaN
  ELSE IF a[1] + off < Len(v) THEN v[a[1] + off + 1] ELSE NaN

Corner(v, a) == <<VAt(v, a, 0), VAt(v, a, 1), VAt(v, a, 2)>>

\* the three corners of the triangle whose indices start at faces[i]
TriCorners(m, i) ==
  LET a == RMul(FaceAt(m.faces, i), Num(3))
      b == RMul(FaceAt(m.faces, i + 1), Num(3))
      c == RMul(FaceAt(m.faces, i + 2), Num(3))
  IN  <<Corner(m.vertices, a), Corner(m.vertices, b), Corner(m.vertices, c)>>

\* (b - a) x (c - a)
Cross(pa, pb, pc) ==
  LET ux == RSub(pb[1], pa[1])
      uy == RSub(pb[2], pa[2])
      uz == RSub(pb[3], pa[3])
      vx == RSub(pc[1], pa[1])
      vy == RSub(pc[2], pa[2])
      vz == RSub(pc[3], pa[3])
  IN  <<RSub(RMul(uy, vz), RMul(uz, vy)),
        RSub(RMul(uz, vx), RMul(ux, vz)),
        RSub(RMul(ux, vy), RMul(uy, vx))>>

----------------------------------------------------------------------------
(* MeshGeneratorService.heightmapToMesh *)

HeightPatterns == {"full", "half", "checker", "peak"}

HeightValue(p, x, y) ==
  CASE p = "full"    -> Num(1)
    [] p = "half"    -> Rat(1, 2)
    [] p = "checker" -> Num((x + y) % 2)
    [] p = "peak"    -> IF x = 0 /\ y = 0 THEN Num(1) ELSE Num(0)

HeightMap(p, n) == [k \in 1 .. (n * n) |-> HeightValue(p, (k - 1) % n, (k - 1) \div n)]

\* parameter values whose metre equivalents (1/4, 1/8) are binary fractions,
\* so that for N <= 3 every coordinate is stored unchanged by the
\* Float32Array of the result
ReliefParamSets ==
  [widthMM : {0, 250}, baseMM : {0, 125}, maxHeightMM : {0, 125}, depthMultiplier : {1, 2}]

\* N = Math.sqrt(heightmap.length) | 0
N == ISqrtIn(Len(heightmap), 0, Len(heightmap) + 1)
W == Rat(rParams.widthMM, 1000)
H == Rat(rParams.maxHeightMM, 1000)
half == RDiv(W, Num(2))

\* the vertex pushed for grid point (x, y)
PlaneVertex(x, y) ==
  LET u  == Rat(x, N - 1)
      v  == Rat(y, N - 1)
      z  == RMul(RMul(heightmap[y * N + x + 1], H), Num(rParams.depthMultiplier))
      px == RMul(RSub(u, Rat(1, 2)), W)
      py == RMul(RSub(v, Rat(1, 2)), RMul(W, Rat(N, N)))
  IN  <<px, py, RAdd(z, Rat(rParams.baseMM, 1000))>>

\* verts after the elevated-plane loop, flat xyz
PlaneVerts ==
  [k \in 1 .. (3 * N * N) |->
     LET q == (k - 1) \div 3 IN PlaneVertex(q % N, q \div N)[((k - 1) % 3) + 1]]

\* the two triangles pushed for grid cell (x, y)
PlaneCell(x, y) ==
  LET i  == y * N + x
      i0 == i
      i1 == i + 1
      i2 == i + N
      i3 == i + N + 1
  IN  <<i0, i2, i1, i1, i2, i3>>

PlaneFaces ==
  IF N < 2 THEN <<>>
  ELSE [k \in 1 .. (6 * (N - 1) * (N - 1)) |->
          LET q == (k - 1) \div 6
          IN  PlaneCell(q % (N - 1), q \div (N - 1))[((k - 1) % 6) + 1]]

baseZ == Num(0)

\* the 4 base vertices pushed after the plane
BaseVerts ==
  <<RNeg(half), RNeg(half), baseZ,
    half,       RNeg(half), baseZ,
    RNeg(half), half,       baseZ,
    half,       half,       baseZ>>

\* the faces pushed for the base: the bottom cap, two triangles
BaseFaces(bi) == <<bi + 0, bi + 2, bi + 1, bi + 1, bi + 2, bi + 3>>

\* the returned { vertices, faces }; coordinates are kept as the exact
\* numbers pushed to verts
HeightmapToMeshResult ==
  [vertices |-> PlaneVerts \o BaseVerts,
   faces    |-> PlaneFaces \o BaseFaces(Len(PlaneVerts) \div 3)]

----------------------------------------------------------------------------
(* StlGeneratorService *)

\* _normal: normalised (b - a) x (c - a), len = Math.hypot(...) || 1
Normal(pa, pb, pc) ==
  LET n   == Cross(pa, pb, pc)
      len == ROr(Hypot(n[1], n[2], n[3]), Num(1))
  IN  <<RDiv(n[1], len), RDiv(n[2], len), RDiv(n[3], len)>>

\* v0 . (v1 x v2)
TripleProduct(v0, v1, v2) ==
  RAdd(RSub(RMul(v0[1], RSub(RMul(v1[2], v2[3]), RMul(v1[3], v2[2]))),
            RMul(v0[2], RSub(RMul(v1[1], v2[3]), RMul(v1[3], v2[1])))),
       RMul(v0[3], RSub(RMul(v1[1], v2[2]), RMul(v1[2], v2[1]))))

\* the loop of _estimateVolume from faces[i] on, vol accumulated so far
RECURSIVE VolumeLoop(_, _, _)
VolumeLoop(m, i, vol) ==
  IF i >= Len(m.faces) THEN vol
  ELSE LET t == TriCorners(m, i)
       IN  VolumeLoop(m, i + 3, RAdd(vol, RDiv(TripleProduct(t[1], t[2], t[3]), Num(6))))

\* _estimateVolume
EstimateVolume(m) == RAbs(VolumeLoop(m, 0, Num(0)))

\* volumeCM3 = volumeM3 * 1e6
VolumeCM3(m) == RMul(EstimateVolume(m), Num(1000000))

Line(kw, args) == [kw |-> kw, args |-> args]

\* the lines _toAscii appends for the triangle starting at faces[i]
AsciiFacet(m, i) ==
  LET t == TriCorners(m, i)
      n == Normal(t[1], t[2], t[3])
  IN  <<Line("facet normal", n), Line("outer loop", <<>>),
        Line("vertex", t[1]), Line("vertex", t[2]), Line("vertex", t[3]),
        Line("endloop", <<>>), Line("endfacet", <<>>)>>

RECURSIVE AsciiLoop(_, _, _)
AsciiLoop(m, i, out) ==
  IF i >= Len(m.faces) THEN out
  ELSE AsciiLoop(m, i + 3, out \o AsciiFacet(m, i))

\* _toAscii: the text as its lines; numbers are kept as values
ToAscii(m) ==
  AsciiLoop(m, 0, <<Line("solid model", <<>>)>>) \o <<Line("endsolid model", <<>>)>>

\* the buffer after writing bytes at byte offset o (offsets count from 0);
\* the write lies inside the buffer
WriteBytes(buf, o, bytes) ==
  SubSeq(buf, 1, o) \o bytes \o SubSeq(buf, o + Len(bytes) + 1, Len(buf))

faceCountOf(m) == Len(m.faces) \div 3

\* the record with the second and third corner written in exchanged order
BinaryRecordSwapped(m, i) ==
  LET t == TriCorners(m, i)
      n == Normal(t[1], t[2], t[3])
  IN  F32LE(n[1]) \o F32LE(n[2]) \o F32LE(n[3])
      \o F32LE(t[1][1]) \o F32LE(t[1][2]) \o F32LE(t[1][3])
      \o F32LE(t[3][1]) \o F32LE(t[3][2]) \o F32LE(t[3][3])
      \o F32LE(t[2][1]) \o F32LE(t[2][2]) \o F32LE(t[2][3])
      \o <<0, 0>>

\* the 50 bytes one iteration of the _toBinary loop writes from offset o on:
\* normal, the three corners in winding order, attribute byte count
BinaryRecord(m, i) ==
  LET t == TriCorners(m, i)
      n == Normal(t[1], t[2], t[3])
  IN  F32LE(n[1]) \o F32LE(n[2]) \o F32LE(n[3])
      \o F32LE(t[1][1]) \o F32LE(t[1][2]) \o F32LE(t[1][3])
      \o F32LE(t[2][1]) \o F32LE(t[2][2]) \o F32LE(t[2][3])
      \o F32LE(t[3][1]) \o F32LE(t[3][2]) \o F32LE(t[3][3])
      \o <<0, 0>>

RECURSIVE BinaryLoop(_, _, _, _)
BinaryLoop(m, buf, i, o) ==
  IF i >= Len(m.faces) THEN buf
  ELSE BinaryLoop(m, WriteBytes(buf, o, BinaryRecord(m, i)), i + 3, o + 50)

\* a DataView write of the loop lies outside the buffer (RangeError): the
\* loop runs once per started index triple, the buffer holds faceCount records
ToBinaryThrows(m) == (Len(m.faces) + 2) \div 3 > faceCountOf(m)

\* _toBinary
ToBinary(m) ==
  LET buffer == [p \in 1 .. (84 + faceCountOf(m) * 50) |-> 0]
      hdr    == WriteBytes(buffer, 80, U32LE(faceCountOf(m)))
  IN  BinaryLoop(m, hdr, 0, 84)

StatsOf(m) ==
  [faces |-> Len(m.faces) \div 3, verts |-> Len(m.vertices) \div 3,
   volumeCM3 |-> VolumeCM3(m)]

\* fromMesh(mesh, { format, units: 'mm', watertightExpected: true })
FromMesh ==
  /\ rpc = "fromMesh"
  /\ IF format = "ascii"
     THEN /\ stl' = [format |-> "ascii", bytes |-> <<>>, text |-> ToAscii(mesh)]
          /\ stats' = StatsOf(mesh)
          /\ rpc' = "done"
     ELSE IF ToBinaryThrows(mesh)
     THEN /\ rpc' = "RangeError"
          /\ UNCHANGED <<stl, stats>>
     ELSE /\ stl' = [format |-> "binary", bytes |-> ToBinary(mesh), text |-> <<>>]
          /\ stats' = StatsOf(mesh)
          /\ rpc' = "done"
  /\ UNCHANGED <<heightmap, rParams, format, mesh, buildVars, genVars, enhVars, ppVars, objVars, cmpVars>>

\* toReliefSTL up to the call of fromMesh
HeightmapToMesh ==
  /\ rpc = "heightmapToMesh"
  /\ mesh' = HeightmapToMeshResult
  /\ rpc' = "fromMesh"
  /\ UNCHANGED <<heightmap, rParams, format, stl, stats, buildVars, genVars, enhVars, ppVars, objVars, cmpVars>>

InitRelief ==
  /\ \E n \in 0 .. MaxN : \E p \in HeightPatterns : heightmap = HeightMap(p, n)
  /\ rParams \in ReliefParamSets
  /\ format \in {"ascii", "binary"}
  /\ mesh = NoMesh
  /\ stl = NoStl
  /\ stats = NoStats
  /\ rpc = "heightmapToMesh"
  /\ BuildIdle
  /\ GenIdle
  /\ EnhIdle
  /\ PPIdle
  /\ ObjIdle
  /\ CmpIdle

NextRelief ==
  \/ HeightmapToMesh
  \/ FromMesh

SpecRelief == InitRelief /\ [][NextRelief]_vars

\* heightmapToMesh has returned its mesh
MeshBuilt == rpc \in {"fromMesh", "done", "RangeError"}

ConstantFullHeight == \A k \in DOMAIN heightmap : heightmap[k] = Num(1)

\* C3: the mesh toReliefSTL obtains from heightmapToMesh is a closed solid:
\* for every N x N heightmap with N >= 2 every undirected edge is shared by
\* exactly 2 triangles.
C3_ReliefMeshClosed ==
  (MeshBuilt /\ N >= 2 /\ rParams.widthMM > 0 /\ rParams.maxHeightMM > 0)
     => EveryEdgeSharedByTwo(mesh.faces)

\* C7: for a constant-height heightmap the relief pipeline reports
\* volumeCM3 = widthMM * depthMM * (baseMM + maxHeightMM) / 1000, the volume
\* of the box (depthMM = widthMM for the square grid).
C7_BoxVolume ==
  (/\ rpc = "done" /\ N >= 2 /\ ConstantFullHeight
   /\ rParams.widthMM > 0 /\ rParams.maxHeightMM > 0
   /\ rParams.depthMultiplier = 1)
  => stats.volumeCM3
       = Rat(rParams.widthMM * rParams.widthMM
               * (rParams.baseMM + rParams.maxHeightMM), 1000)

\* C10: the mesh builder returns no mesh for invalid input: a grid with
\* width < 2 or height < 2, or widthMM <= 0, or maxHeightMM <= 0.
C10_NoMeshForInvalidInput ==
  MeshBuilt => (N >= 2 /\ rParams.widthMM > 0 /\ rParams.maxHeightMM > 0)

----------------------------------------------------------------------------
(* StlGeneratorService.fromMesh called directly on a mesh *)

\* xyz of 4 vertices
MeshVertexSets ==
  { <<Num(0), Num(0), Num(0),  Num(1), Num(0), Num(0),
      Num(0), Num(1), Num(0),  Num(0), Num(0), Num(1)>>,
    <<Num(-1), Num(-1), Num(0),  Num(2), Num(0), Num(0),
      Num(0), Num(2), Num(0),  Num(0), Num(0), Num(3)>> }

\* index triples: the 4 faces of the tetrahedron on the 4 vertices, a
\* triangle with a repeated index, a triangle with an index past the vertices
TriChoices ==
  { <<0, 2, 1>>, <<0, 1, 3>>, <<0, 3, 2>>, <<1, 2, 3>>, <<0, 0, 1>>, <<0, 1, 4>> }

Flatten(ts) ==
  [k \in 1 .. (3 * Len(ts)) |-> ts[((k - 1) \div 3) + 1][((k - 1) % 3) + 1]]

\* index arrays: up to MaxTris triangles followed by 0, 1 or 2 stray indices,
\* and the closed tetrahedron
FaceArrays ==
  { Flatten(ts) \o tail :
      ts \in UNION { [1 .. n -> TriChoices] : n \in 0 .. MaxTris },
      tail \in { <<>>, <<0>>, <<0, 1>> } }
  \cup { <<0, 2, 1, 0, 1, 3, 0, 3, 2, 1, 2, 3>> }

InitStl ==
  /\ heightmap = <<>>
  /\ rParams = NoParams
  /\ format \in {"ascii", "binary"}
  /\ \E v \in MeshVertexSets : \E f \in FaceArrays : mesh = [vertices |-> v, faces |-> f]
  /\ stl = NoStl
  /\ stats = NoStats
  /\ rpc = "fromMesh"
  /\ BuildIdle
  /\ GenIdle
  /\ EnhIdle
  /\ PPIdle
  /\ ObjIdle
  /\ CmpIdle

NextStl == FromMesh

SpecStl == InitStl /\ [][NextStl]_vars

\* bytes o .. o + n - 1 of a buffer (offsets count from 0)
Slice(buf, o, n) == [p \in 1 .. n |-> buf[o + p]]

\* the corner coordinates a reader of the standard layout finds in the
\* record at byte offset 84 + 50 * k
ParsedCorner(buf, k, c) ==
  LET o == 84 + 50 * k + 12 * c
  IN  <<DecodeF32(Slice(buf, o, 4)), DecodeF32(Slice(buf, o + 4, 4)),
        DecodeF32(Slice(buf, o + 8, 4))>>

ValidIndices(m) == \A p \in DOMAIN m.faces : m.faces[p] < Len(m.vertices) \div 3

\* C6: for a mesh with n triangles _toBinary returns 84 + 50 * n bytes,
\* bytes 80..83 hold n as little-endian uint32, and the record at offset
\* 84 + 50 * k holds the normal, the three corners of triangle k in winding
\* order and a uint16 attribute byte count of 0.
C6_BinaryLayout ==
  (rpc = "done" /\ format = "binary") =>
    LET n == Len(mesh.faces) \div 3
        buf == stl.bytes
    IN  /\ Len(buf) = 84 + 50 * n
        /\ DecodeU32(Slice(buf, 80, 4)) = n
        /\ \A k \in 0 .. (n - 1) :
             LET t == TriCorners(mesh, 3 * k)
                 nrm == Normal(t[1], t[2], t[3])
             IN  /\ Slice(buf, 84 + 50 * k, 12)
                      = F32LE(nrm[1]) \o F32LE(nrm[2]) \o F32LE(nrm[3])
                 /\ \A c \in 1 .. 3 : ParsedCorner(buf, k, c) = t[c]
                 /\ Slice(buf, 84 + 50 * k + 48, 2) = <<0, 0>>

C6_Witness ==
  /\ rpc = "done" /\ format = "binary"
  /\ mesh.faces = <<0, 2, 1, 1, 2, 3>>
  /\ Len(stl.bytes) = 184
  /\ ParsedCorner(stl.bytes, 1, 3) = Corner(mesh.vertices, Num(9))

\* C8: the volumeCM3 returned by fromMesh is |sum of v0 . (v1 x v2) / 6| in
\* the mesh's coordinate units (millimetres), divided by 1000.
C8_VolumeMM3ToCM3 ==
  rpc = "done" => stats.volumeCM3 = RDiv(EstimateVolume(mesh), Num(1000))

\* a validator hard failure: an index >= vertexCount, or an index array
\* whose length is not a multiple of 3
HardFailure(m) == ~ValidIndices(m) \/ Len(m.faces) % 3 # 0

\* C9: encoding a mesh that has a validator hard failure raises InvalidMesh;
\* no STL buffer is returned for such a mesh.
C9_InvalidMeshRaised ==
  (HardFailure(mesh) /\ rpc # "fromMesh") => rpc = "InvalidMesh"

----------------------------------------------------------------------------
(* STLGenerator.generateBinarySTL *)

\* the decimal digits of a natural number, as character codes
RECURSIVE Digits(_)
Digits(n) == IF n < 10 THEN <<48 + n>> ELSE Digits(n \div 10) \o <<48 + (n % 10)>>

\* x.toFixed(1) of a non-negative number, as character codes
ToFixed1(a) ==
  IF IsNaN(a) THEN <<78, 97, 78>>
  ELSE LET t == (20 * a[1] + a[2]) \div (2 * a[2])
       IN  Digits(t \div 10) \o <<46, 48 + (t % 10)>>

\* the default value of the fileName parameter: 'model'
fileName == <<109, 111, 100, 101, 108>>

\* `MonkeyPic STL - ${fileName} - ${triangleCount} triangles - Compression:
\* ${(mesh.compressionRatio * 100).toFixed(1)}%`, UTF-8 encoded
HeaderBytes(m) ==
  <<77, 111, 110, 107, 101, 121, 80, 105, 99, 32, 83, 84, 76, 32, 45, 32>>
  \o fileName \o <<32, 45, 32>> \o Digits(m.triangleCount)
  \o <<32, 116, 114, 105, 97, 110, 103, 108, 101, 115, 32, 45, 32, 67, 111,
       109, 112, 114, 101, 115, 115, 105, 111, 110, 58, 32>>
  \o ToFixed1(RMul(m.compressionRatio, Num(100))) \o <<37>>

totalSize(m) == 80 + 4 + (m.triangleCount * 50)

\* new Float32Array(buffer, 84) throws a RangeError unless the bytes after
\* the offset are a whole number of 4-byte elements
Float32ViewThrows(m) == (totalSize(m) - 84) % 4 # 0

\* length of float32View
Float32ViewLength(m) == (totalSize(m) - 84) \div 4

\* the three corners of the triangle whose indices start at indices[i]
GenCorners(m, i) ==
  LET i1 == RMul(FaceAt(m.indices, i), Num(3))
      i2 == RMul(FaceAt(m.indices, i + 1), Num(3))
      i3 == RMul(FaceAt(m.indices, i + 2), Num(3))
  IN  <<Corner(m.vertices, i1), Corner(m.vertices, i2), Corner(m.vertices, i3)>>

\* the cross product, divided by its length only if (length > 0)
GenNormal(v1, v2, v3) ==
  LET n      == Cross(v1, v2, v3)
      length == Hypot(n[1], n[2], n[3])
  IN  IF RLt(Num(0), length)
      THEN <<RDiv(n[1], length), RDiv(n[2], length), RDiv(n[3], length)>>
      ELSE n

\* the 12 numbers one loop iteration assigns: normal, then v1, v2, v3
GenFloats(m, i) ==
  LET t == GenCorners(m, i)
  IN  GenNormal(t[1], t[2], t[3]) \o t[1] \o t[2] \o t[3]

\* the little-endian float32 bytes of the first cnt numbers of vals
FloatBytes(vals, cnt) ==
  [p \in 1 .. (4 * cnt) |-> F32LE(vals[((p - 1) \div 4) + 1])[((p - 1) % 4) + 1]]

\* the twelve assignments float32View[gBufferIndex++] = vals[k] of one
\* iteration: an assignment at an index that is not an integer inside the
\* view (a fractional index, or one >= len) writes nothing
GenWrite(buf, len, bufferIndex, vals) ==
  IF bufferIndex[2] # 1 \/ bufferIndex[1] >= len THEN buf
  ELSE LET inside == IF len - bufferIndex[1] < Len(vals)
                     THEN len - bufferIndex[1] ELSE Len(vals)
       IN  WriteBytes(buf, 84 + 4 * bufferIndex[1], FloatBytes(vals, inside))

\* the zeroed buffer with the header and the triangle count written
GenHeader(m) ==
  LET buffer == [p \in 1 .. totalSize(m) |-> 0]
      hb     == HeaderBytes(m)
      hdr    == WriteBytes(buffer, 0, SubSeq(hb, 1, IF Len(hb) < 80 THEN Len(hb) ELSE 80))
  IN  WriteBytes(hdr, 80, U32LE(m.triangleCount))

\* the triangle loop from indices[i] on; each iteration advances bufferIndex
\* by 12 and then by 0.5
RECURSIVE GenLoop(_, _, _, _)
GenLoop(m, buf, i, bufferIndex) ==
  IF i >= Len(m.indices) THEN buf
  ELSE GenLoop(m, GenWrite(buf, Float32ViewLength(m), bufferIndex, GenFloats(m, i)),
               i + 3, RAdd(RAdd(bufferIndex, Num(12)), Rat(1, 2)))

\* the buffer wrapped in the returned Blob
GenBuffer(m) == GenLoop(m, GenHeader(m), 0, Num(0))

GenerateBinarySTL ==
  /\ gpc = "generateBinarySTL"
  /\ IF Float32ViewThrows(tmd)
     THEN /\ gpc' = "RangeError"
          /\ UNCHANGED blob
     ELSE /\ blob' = GenBuffer(tmd)
          /\ gpc' = "done"
  /\ UNCHANGED <<tmd, report, gFormat, optimal, gi, gBufferIndex, buildVars, reliefVars, enhVars, ppVars, objVars, cmpVars>>

\* meshes handed to the generator: triangleCount agrees with the index array
TriangleMeshes ==
  { [vertices |-> v, indices |-> f, triangleCount |-> Len(f) \div 3,
     compressionRatio |-> c] :
      v \in MeshVertexSets, f \in FaceArrays, c \in {Rat(1, 2), Num(1)} }

InitBinary ==
  /\ tmd \in TriangleMeshes
  /\ blob = <<>>
  /\ report = NoReport
  /\ gpc = "generateBinarySTL"
  /\ gFormat = "none"
  /\ optimal = NoOptimal
  /\ gi = 0
  /\ gBufferIndex = Num(0)
  /\ BuildIdle
  /\ ReliefIdle
  /\ EnhIdle
  /\ PPIdle
  /\ ObjIdle
  /\ CmpIdle

NextBinary == GenerateBinarySTL

SpecBinary == InitBinary /\ [][NextBinary]_vars

WellFormed(m) ==
  /\ Len(m.indices) = 3 * m.triangleCount
  /\ \A p \in DOMAIN m.indices : m.indices[p] < Len(m.vertices) \div 3

\* C5: for every mesh with n >= 1 triangles the buffer generateBinarySTL
\* produces, read back with the standard layout (triangle k at byte offset
\* 84 + 50 * k, 3 normal floats then 3 vertices), has n triangles and the
\* three vertex coordinates of the mesh's k-th triangle for every k < n.
C5_BinaryRoundTrip ==
  (gpc # "generateBinarySTL" /\ tmd.triangleCount >= 1 /\ WellFormed(tmd)) =>
    /\ gpc = "done"
    /\ Len(blob) = 84 + 50 * tmd.triangleCount
    /\ DecodeU32(Slice(blob, 80, 4)) = tmd.triangleCount
    /\ \A k \in 0 .. (tmd.triangleCount - 1) : \A c \in 1 .. 3 :
         ParsedCorner(blob, k, c) = GenCorners(tmd, 3 * k)[c]

----------------------------------------------------------------------------
(* STLGenerator.generateAsciiSTL, STLGenerator.generateOptimalSTL *)

\* the first k digits of rem / den after the decimal point, as a number,
\* and the remainder left
RECURSIVE FractionDigits(_, _, _, _)
FractionDigits(rem, den, k, acc) ==
  IF k = 0 THEN <<acc, rem>>
  ELSE FractionDigits((rem * 10) % den, den, k - 1, acc * 10 + (rem * 10) \div den)

\* formatFloat: value.toFixed(6), as the number the digits denote
formatFloat(a) ==
  IF IsNaN(a) THEN NaN
  ELSE LET n  == Abs(a[1])
           fd == FractionDigits(n % a[2], a[2], 6, 0)
           up == IF 2 * fd[2] >= a[2] THEN 1 ELSE 0
           mag == RAdd(Num(n \div a[2]), Rat(fd[1] + up, 1000000))
       IN  IF a[1] < 0 THEN RNeg(mag) ELSE mag

FormatTriple(v) == <<formatFloat(v[1]), formatFloat(v[2]), formatFloat(v[3])>>

\* the seven lines pushed for the triangle whose indices start at indices[i]
GenAsciiFacet(m, i) ==
  LET t == GenCorners(m, i)
  IN  << <<"facet normal", FormatTriple(GenNormal(t[1], t[2], t[3]))>>,
         <<"outer loop">>,
         <<"vertex", FormatTriple(t[1])>>,
         <<"vertex", FormatTriple(t[2])>>,
         <<"vertex", FormatTriple(t[3])>>,
         <<"endloop">>,
         <<"endfacet">> >>

binarySize(m) == 80 + 4 + (m.triangleCount * 50)

asciiSize(m) == m.triangleCount * 200

BinaryThreshold == 1000

useBinary(m, fmt) == fmt = "binary" \/ m.triangleCount > BinaryThreshold

\* entry of generateOptimalSTL up to the triangle loop of the encoder chosen
GenerateOptimalSTL ==
  /\ gpc = "generateOptimalSTL"
  /\ IF useBinary(tmd, gFormat)
     THEN IF Float32ViewThrows(tmd)
          THEN /\ gpc' = "RangeError"
               /\ UNCHANGED blob
          ELSE /\ blob' = GenHeader(tmd)
               /\ gpc' = "binaryLoop"
     ELSE /\ blob' = << <<"solid", fileName>> >>
          /\ gpc' = "asciiLoop"
  /\ gi' = 0
  /\ gBufferIndex' = Num(0)
  /\ UNCHANGED <<tmd, report, gFormat, optimal, buildVars, reliefVars, enhVars, ppVars, objVars, cmpVars>>

\* one iteration of the triangle loop of generateBinarySTL
BinaryTriangle ==
  /\ gpc = "binaryLoop"
  /\ gi < Len(tmd.indices)
  /\ blob' = GenWrite(blob, Float32ViewLength(tmd), gBufferIndex, GenFloats(tmd, gi))
  /\ gi' = gi + 3
  /\ gBufferIndex' = RAdd(RAdd(gBufferIndex, Num(12)), Rat(1, 2))
  /\ UNCHANGED <<tmd, gpc, report, gFormat, optimal, buildVars, reliefVars, enhVars, ppVars, objVars, cmpVars>>

\* return of generateBinarySTL and of generateOptimalSTL
BinaryReturn ==
  /\ gpc = "binaryLoop"
  /\ gi >= Len(tmd.indices)
  /\ optimal' = [format |-> "binary", estimatedSize |-> binarySize(tmd)]
  /\ gpc' = "returned"
  /\ UNCHANGED <<tmd, blob, report, gFormat, gi, gBufferIndex, buildVars, reliefVars, enhVars, ppVars, objVars, cmpVars>>

\* one iteration of the triangle loop of generateAsciiSTL
AsciiTriangle ==
  /\ gpc = "asciiLoop"
  /\ gi < Len(tmd.indices)
  /\ blob' = blob \o GenAsciiFacet(tmd, gi)
  /\ gi' = gi + 3
  /\ UNCHANGED <<tmd, gpc, report, gFormat, optimal, gBufferIndex, buildVars, reliefVars, enhVars, ppVars, objVars, cmpVars>>

\* the last line, return of generateAsciiSTL and of generateOptimalSTL
AsciiReturn ==
  /\ gpc = "asciiLoop"
  /\ gi >= Len(tmd.indices)
  /\ blob' = blob \o << <<"endsolid", fileName>> >>
  /\ optimal' = [format |-> "ascii", estimatedSize |-> asciiSize(tmd)]
  /\ gpc' = "returned"
  /\ UNCHANGED <<tmd, report, gFormat, gi, gBufferIndex, buildVars, reliefVars, enhVars, ppVars, objVars, cmpVars>>

\* a mesh of n triangles: the faces of the tetrahedron, repeated
RepeatedTetrahedron(n) ==
  [vertices |-> <<Num(0), Num(0), Num(0),  Num(1), Num(0), Num(0),
                  Num(0), Num(1), Num(0),  Num(0), Num(0), Num(1)>>,
   indices |-> SubSeq([k \in 1 .. (3 * n) |->
                         <<0, 2, 1, 0, 1, 3, 0, 3, 2, 1, 2, 3>>[((k - 1) % 12) + 1]],
                      1, 3 * n),
   triangleCount |-> n,
   compressionRatio |-> Num(1)]

\* the small meshes, and meshes of one and two triangles more than the
\* count from which the binary encoder is chosen
OptimalMeshes ==
  TriangleMeshes
  \cup { RepeatedTetrahedron(n) : n \in {BinaryThreshold + 1, BinaryThreshold + 2} }

InitOptimal ==
  /\ tmd \in OptimalMeshes
  /\ gFormat \in {"ascii", "binary"}
  /\ blob = <<>>
  /\ report = NoReport
  /\ optimal = NoOptimal
  /\ gi = 0
  /\ gBufferIndex = Num(0)
  /\ gpc = "generateOptimalSTL"
  /\ BuildIdle
  /\ ReliefIdle
  /\ EnhIdle
  /\ PPIdle
  /\ ObjIdle
  /\ CmpIdle

NextOptimal ==
  \/ GenerateOptimalSTL
  \/ BinaryTriangle
  \/ BinaryReturn
  \/ AsciiTriangle
  \/ AsciiReturn

SpecOptimal == InitOptimal /\ [][NextOptimal]_vars

\* C30: the document generateOptimalSTL returns is in the format the caller
\* requested: params.format 'ascii' yields an ASCII document and 'binary' a
\* binary one, for every triangle count.  The document is the one the
\* encoder entered writes, and the format reported with it is the same.
C30_RequestedFormat ==
  /\ gpc = "binaryLoop" => gFormat = "binary"
  /\ gpc = "asciiLoop" => gFormat = "ascii"
  /\ gpc = "returned" => optimal.format = gFormat

----------------------------------------------------------------------------
(* imageToEnhancedStl *)

Max2(a, b) == IF a < b THEN b ELSE a

Min2(a, b) == IF a < b THEN a ELSE b

\* Math.ceil(a / b) for a >= 0, b > 0
CeilDiv(a, b) == (a + b - 1) \div b

\* Math.min
RMin(a, b) == IF IsNaN(a) \/ IsNaN(b) THEN NaN
              ELSE IF RLt(b, a) THEN b ELSE a

\* Math.pow(a, k) for a natural exponent k
RECURSIVE RPow(_, _)
RPow(a, k) == IF k = 0 THEN Num(1) ELSE RMul(a, RPow(a, k - 1))

MAX_SAMPLES == Max2(100, Min2(800, eOpts.sampleMax))
stepX == Max2(1, CeilDiv(img.width, MAX_SAMPLES))
stepY == Max2(1, CeilDiv(img.height, MAX_SAMPLES))
gw == ((img.width - 1) \div stepX) + 1
gh == ((img.height - 1) \div stepY) + 1

sx == Rat(eOpts.widthMM, Max2(gw - 1, 1))
sy == RDiv(RMul(Num(eOpts.widthMM), Rat(gh, gw)), Num(Max2(gh - 1, 1)))

\* H(v): the height in mm of a gray value
EnhH(v) ==
  LET n0 == Rat(v, 255)
      normalizedValue ==
        IF eOpts.volumeEnhancement.enabled
        THEN RMul(RPow(n0, eOpts.volumeEnhancement.contrastCurve),
                  eOpts.volumeEnhancement.depthMultiplier)
        ELSE n0
  IN  RAdd(Num(eOpts.baseMM),
           RMul(Num(eOpts.maxHeightMM), RMin(Num(1), normalizedValue)))

\* H(gray[k]) for a 0-based k
HGray(k) == EnhH(gray[k + 1])

\* k decimal digits of r / den (r < den) by long division: <<digits, remainder>>
RECURSIVE DecDigits(_, _, _, _)
DecDigits(r, den, k, acc) ==
  IF k = 0 THEN <<acc, r>>
  ELSE DecDigits((r * 10) % den, den, k - 1, acc * 10 + ((r * 10) \div den))

\* f(n): the number n.toFixed(6) denotes, "0" for a non-finite n
Fmt(a) ==
  IF IsNaN(a) THEN Num(0)
  ELSE LET n  == Abs(a[1])
           dd == DecDigits(n % a[2], a[2], 6, 0)
           m  == (n \div a[2]) * 1000000 + dd[1]
                   + (IF 2 * dd[2] >= a[2] THEN 1 ELSE 0)
       IN  Rat(IF a[1] < 0 THEN -m ELSE m, 1000000)

Fmt3(pt) == <<Fmt(pt[1]), Fmt(pt[2]), Fmt(pt[3])>>

\* integer division rounding towards zero
SignedDiv(n, s) == IF n < 0 THEN -((-n) \div s) ELSE n \div s

\* len = Math.hypot(nx, ny, nz) || 1; nx /= len; ny /= len; nz /= len.
\* The direction is taken from the numerators over the common denominator
\* (scaled down to 13 bits where larger), the square root to about 14 bits.
UnitNormal(n) ==
  IF IsNaN(n[1]) \/ IsNaN(n[2]) \/ IsNaN(n[3]) THEN n
  ELSE LET dd == LCM(n[1][2], LCM(n[2][2], n[3][2]))
           a1 == n[1][1] * (dd \div n[1][2])
           a2 == n[2][1] * (dd \div n[2][2])
           a3 == n[3][1] * (dd \div n[3][2])
           g  == GCD(GCD(Abs(a1), Abs(a2)), Abs(a3))
       IN  IF g = 0 THEN n
           ELSE LET m  == Max2(Max2(Abs(a1), Abs(a2)), Abs(a3)) \div g
                    s  == IF m <= 9000 THEN 1 ELSE (m \div 9000) + 1
                    b1 == SignedDiv(a1 \div g, s)
                    b2 == SignedDiv(a2 \div g, s)
                    b3 == SignedDiv(a3 \div g, s)
                    sc == SqrtScale(b1 * b1 + b2 * b2 + b3 * b3, 1)
                    len == ISqrtIn(sc[1], 0, 16385)
                IN  <<Rat(b1 * sc[2], len), Rat(b2 * sc[2], len), Rat(b3 * sc[2], len)>>

\* facet(ax, ay, az, bx, by, bz, cx, cy, cz): the facet normal and the three
\* vertex lines pushed to lines[]; part records which loop pushed the facet
facet(part, pa, pb, pc) ==
  LET n == UnitNormal(Cross(pa, pb, pc))
  IN  [part |-> part, normal |-> Fmt3(n),
       vertices |-> <<Fmt3(pa), Fmt3(pb), Fmt3(pc)>>]

\* (Math.sin(x * 0.7 + y * 0.3) + Math.cos(x * 0.3 + y * 0.7)) * 0.01 in
\* thousandths, row x, column y, for x, y in 0 .. 3
NoiseTable ==
  << <<10, 11, 7, 3>>, <<16, 14, 8, 3>>, <<18, 13, 5, -2>>, <<15, 6, -2, -8>> >>

Noise(x, y) == Rat(NoiseTable[x + 1][y + 1], 1000)

\* the facets the top-surface loop pushes for grid cell (x, y)
TopCell(x, y) ==
  LET noise == IF eOpts.textureEnhancement.enabled
                    /\ eOpts.textureEnhancement.microTexture
               THEN Noise(x, y) ELSE Num(0)
      z00  == RAdd(HGray(y * gw + x), noise)
      z10  == RAdd(HGray(y * gw + x + 1), noise)
      z01  == RAdd(HGray((y + 1) * gw + x), noise)
      z11  == RAdd(HGray((y + 1) * gw + x + 1), noise)
      x0   == RMul(Num(x), sx)
      y0   == RMul(Num(y), sy)
      x1   == RMul(Num(x + 1), sx)
      y1   == RMul(Num(y + 1), sy)
      heightVariation == RAdd(RAbs(RSub(z00, z11)), RAbs(RSub(z10, z01)))
      midX == RDiv(RAdd(x0, x1), Num(2))
      midY == RDiv(RAdd(y0, y1), Num(2))
      zMid == RDiv(RAdd(RAdd(RAdd(z00, z10), z01), z11), Num(4))
      zTop == RDiv(RAdd(z00, z10), Num(2))
      zLeft == RDiv(RAdd(z00, z01), Num(2))
  IN  IF eOpts.advancedGeometry.adaptiveSubdivision
         /\ RLt(Rat(eOpts.maxHeightMM, 10), heightVariation)
      THEN <<facet("top", <<x0, y0, z00>>, <<midX, y0, zTop>>, <<x0, midY, zLeft>>),
             facet("top", <<midX, y0, zTop>>, <<x1, y0, z10>>, <<midX, midY, zMid>>),
             facet("top", <<x0, midY, zLeft>>, <<midX, midY, zMid>>, <<x0, y1, z01>>),
             facet("top", <<midX, midY, zMid>>, <<x1, y1, z11>>, <<x0, y1, z01>>)>>
      ELSE <<facet("top", <<x0, y0, z00>>, <<x1, y0, z10>>, <<x0, y1, z01>>),
             facet("top", <<x1, y0, z10>>, <<x1, y1, z11>>, <<x0, y1, z01>>)>>

\* for (y < gh - 1) for (x < gw - 1), from the k-th cell on
RECURSIVE TopLoop(_)
TopLoop(k) ==
  IF k >= (gw - 1) * (gh - 1) THEN <<>>
  ELSE TopCell(k % (gw - 1), k \div (gw - 1)) \o TopLoop(k + 1)

\* the facets the bottom-surface loop pushes for grid cell (x, y)
BottomCell(x, y) ==
  LET x0 == RMul(Num(x), sx)
      y0 == RMul(Num(y), sy)
      x1 == RMul(Num(x + 1), sx)
      y1 == RMul(Num(y + 1), sy)
      centerX == Rat(gw - 1, 2)
      centerY == Rat(gh - 1, 2)
      dx == RSub(Num(x), centerX)
      dy == RSub(Num(y), centerY)
      distFromCenter == RSqrt(RAdd(RMul(dx, dx), RMul(dy, dy)))
      maxDist == RSqrt(RAdd(RMul(centerX, centerX), RMul(centerY, centerY)))
      baseHeight ==
        IF eOpts.advancedGeometry.organicShaping
        THEN RMul(RMul(Num(-eOpts.baseMM), Rat(1, 5)), RDiv(distFromCenter, maxDist))
        ELSE Num(0)
  IN  <<facet("bottom", <<x0, y1, baseHeight>>, <<x1, y0, baseHeight>>, <<x0, y0, baseHeight>>),
        facet("bottom", <<x1, y1, baseHeight>>, <<x1, y0, baseHeight>>, <<x0, y1, baseHeight>>)>>

RECURSIVE BottomLoop(_)
BottomLoop(k) ==
  IF k >= (gw - 1) * (gh - 1) THEN <<>>
  ELSE BottomCell(k % (gw - 1), k \div (gw - 1)) \o BottomLoop(k + 1)

\* front edge (y = 0), segment x
FrontSegment(x) ==
  LET x0  == RMul(Num(x), sx)
      x1  == RMul(Num(x + 1), sx)
      y0  == Num(0)
      z00 == HGray(0 * gw + x)
      z10 == HGray(0 * gw + x + 1)
      supportZ00 == RMax(Num(0), RSub(z00, Num(eOpts.baseMM)))
      supportZ10 == RMax(Num(0), RSub(z10, Num(eOpts.baseMM)))
  IN  IF eOpts.advancedGeometry.overhangsSupport
      THEN <<facet("front", <<x0, y0, Num(0)>>, <<x1, y0, Num(0)>>, <<x1, y0, supportZ10>>),
             facet("front", <<x0, y0, Num(0)>>, <<x1, y0, supportZ10>>, <<x0, y0, supportZ00>>)>>
      ELSE <<facet("front", <<x0, y0, Num(0)>>, <<x1, y0, Num(0)>>, <<x1, y0, z10>>),
             facet("front", <<x0, y0, Num(0)>>, <<x1, y0, z10>>, <<x0, y0, z00>>)>>

RECURSIVE FrontLoop(_)
FrontLoop(x) == IF x >= gw - 1 THEN <<>> ELSE FrontSegment(x) \o FrontLoop(x + 1)

\* back edge (y = gh - 1), segment x
BackSegment(x) ==
  LET x0  == RMul(Num(x), sx)
      x1  == RMul(Num(x + 1), sx)
      y1  == RMul(Num(gh - 1), sy)
      z01 == HGray((gh - 1) * gw + x)
      z11 == HGray((gh - 1) * gw + x + 1)
  IN  <<facet("back", <<x1, y1, Num(0)>>, <<x0, y1, Num(0)>>, <<x1, y1, z11>>),
        facet("back", <<x0, y1, Num(0)>>, <<x0, y1, z01>>, <<x1, y1, z11>>)>>

RECURSIVE BackLoop(_)
BackLoop(x) == IF x >= gw - 1 THEN <<>> ELSE BackSegment(x) \o BackLoop(x + 1)

\* left edge (x = 0), segment y
LeftSegment(y) ==
  LET y0  == RMul(Num(y), sy)
      y1  == RMul(Num(y + 1), sy)
      x0  == Num(0)
      z00 == HGray(y * gw + 0)
      z01 == HGray((y + 1) * gw + 0)
  IN  <<facet("left", <<x0, y0, Num(0)>>, <<x0, y1, Num(0)>>, <<x0, y1, z01>>),
        facet("left", <<x0, y0, Num(0)>>, <<x0, y1, z01>>, <<x0, y0, z00>>)>>

RECURSIVE LeftLoop(_)
LeftLoop(y) == IF y >= gh - 1 THEN <<>> ELSE LeftSegment(y) \o LeftLoop(y + 1)

\* right edge (x = gw - 1), segment y
RightSegment(y) ==
  LET y0  == RMul(Num(y), sy)
      y1  == RMul(Num(y + 1), sy)
      x1  == RMul(Num(gw - 1), sx)
      z10 == HGray(y * gw + (gw - 1))
      z11 == HGray((y + 1) * gw + (gw - 1))
  IN  <<facet("right", <<x1, y1, Num(0)>>, <<x1, y0, Num(0)>>, <<x1, y1, z11>>),
        facet("right", <<x1, y0, Num(0)>>, <<x1, y0, z10>>, <<x1, y1, z11>>)>>

RECURSIVE RightLoop(_)
RightLoop(y) == IF y >= gh - 1 THEN <<>> ELSE RightSegment(y) \o RightLoop(y + 1)

\* contents gray[] can have after the three passes over the decoded image
GrayPatterns == {"white", "mid", "checker", "ramp"}

GrayValue(p, i, j) ==
  CASE p = "white"   -> 255
    [] p = "mid"     -> 51
    [] p = "checker" -> ((i + j) % 2) * 255
    [] p = "ramp"    -> 51 * ((i + j) % 6)

GrayMap(p, w, h) == [k \in 1 .. (w * h) |-> GrayValue(p, (k - 1) % w, (k - 1) \div w)]

EnhancedOptionSets ==
  [widthMM : {12}, baseMM : {0, 2}, maxHeightMM : {5}, sampleMax : {300},
   volumeEnhancement :
     {[enabled |-> FALSE, depthMultiplier |-> Num(1), contrastCurve |-> 1],
      [enabled |-> TRUE, depthMultiplier |-> Rat(3, 2), contrastCurve |-> 2]},
   textureEnhancement : [enabled : {TRUE}, microTexture : BOOLEAN],
   advancedGeometry : [adaptiveSubdivision : BOOLEAN, organicShaping : BOOLEAN,
                       overhangsSupport : BOOLEAN]]

InitEnhanced ==
  /\ img \in [width : 1 .. MaxG, height : 1 .. MaxG]
  /\ eOpts \in EnhancedOptionSets
  /\ gray = <<>>
  /\ lines = <<>>
  /\ epc = "heightmap"
  /\ BuildIdle
  /\ ReliefIdle
  /\ GenIdle
  /\ PPIdle
  /\ ObjIdle
  /\ CmpIdle

\* decoding and the three passes that fill gray[]: any byte content
ExtractHeightmap ==
  /\ epc = "heightmap"
  /\ \E p \in GrayPatterns : gray' = GrayMap(p, gw, gh)
  /\ epc' = "top"
  /\ UNCHANGED <<img, eOpts, lines, buildVars, reliefVars, genVars, ppVars, objVars, cmpVars>>

EmitTop ==
  /\ epc = "top"
  /\ lines' = lines \o TopLoop(0)
  /\ epc' = "bottom"
  /\ UNCHANGED <<img, eOpts, gray, buildVars, reliefVars, genVars, ppVars, objVars, cmpVars>>

EmitBottom ==
  /\ epc = "bottom"
  /\ lines' = lines \o BottomLoop(0)
  /\ epc' = "front"
  /\ UNCHANGED <<img, eOpts, gray, buildVars, reliefVars, genVars, ppVars, objVars, cmpVars>>

EmitFront ==
  /\ epc = "front"
  /\ lines' = lines \o FrontLoop(0)
  /\ epc' = "back"
  /\ UNCHANGED <<img, eOpts, gray, buildVars, reliefVars, genVars, ppVars, objVars, cmpVars>>

EmitBack ==
  /\ epc = "back"
  /\ lines' = lines \o BackLoop(0)
  /\ epc' = "left"
  /\ UNCHANGED <<img, eOpts, gray, buildVars, reliefVars, genVars, ppVars, objVars, cmpVars>>

EmitLeft ==
  /\ epc = "left"
  /\ lines' = lines \o LeftLoop(0)
  /\ epc' = "right"
  /\ UNCHANGED <<img, eOpts, gray, buildVars, reliefVars, genVars, ppVars, objVars, cmpVars>>

EmitRight ==
  /\ epc = "right"
  /\ lines' = lines \o RightLoop(0)
  /\ epc' = "done"
  /\ UNCHANGED <<img, eOpts, gray, buildVars, reliefVars, genVars, ppVars, objVars, cmpVars>>

NextEnhanced ==
  \/ ExtractHeightmap
  \/ EmitTop
  \/ EmitBottom
  \/ EmitFront
  \/ EmitBack
  \/ EmitLeft
  \/ EmitRight

SpecEnhanced == InitEnhanced /\ [][NextEnhanced]_vars

\* a facet of zero area has the normal 0 0 0
Degenerate(fc) == fc.normal = <<Num(0), Num(0), Num(0)>>

\* the facet normal points away from the solid on the facet's wall
Outward(fc) ==
  CASE fc.part = "front" -> fc.normal[2][1] < 0
    [] fc.part = "back"  -> fc.normal[2][1] > 0
    [] fc.part = "left"  -> fc.normal[1][1] < 0
    [] fc.part = "right" -> fc.normal[1][1] > 0
    [] OTHER -> TRUE

\* C4: on each of the four side walls emitted by imageToEnhancedStl both
\* triangles of every edge segment have a facet normal that points away from
\* the solid's interior: -y on the front, +y on the back, -x on the left and
\* +x on the right wall.
C4_WallNormalsOutward ==
  (gw >= 2 /\ gh >= 2) =>
    \A k \in DOMAIN lines : Degenerate(lines[k]) \/ Outward(lines[k])

\* twice the area of the footprint of a facet on the xy plane
Footprint2(fc) ==
  LET a == fc.vertices[1]
      b == fc.vertices[2]
      c == fc.vertices[3]
  IN  RAbs(RSub(RMul(RSub(b[1], a[1]), RSub(c[2], a[2])),
                RMul(RSub(b[2], a[2]), RSub(c[1], a[1]))))

RECURSIVE FootprintSum2(_, _)
FootprintSum2(fs, k) ==
  IF k > Len(fs) THEN Num(0) ELSE RAdd(Footprint2(fs[k]), FootprintSum2(fs, k + 1))

\* the grid cells of the top surface
TopCells == (0 .. (gw - 2)) \X (0 .. (gh - 2))

Subdivided(c) == Len(TopCell(c[1], c[2])) = 4

\* the sides of a facet, each as the set of its two end points
FacetSides(fc) ==
  { {fc.vertices[1], fc.vertices[2]}, {fc.vertices[2], fc.vertices[3]},
    {fc.vertices[3], fc.vertices[1]} }

\* the sides of the facets of cell c on the grid line x = gx or on y = gy
SidesOnColumn(c, gx) ==
  { s \in UNION { FacetSides(TopCell(c[1], c[2])[k]) : k \in 1 .. Len(TopCell(c[1], c[2])) } :
      \A p \in s : p[1] = Fmt(RMul(Num(gx), sx)) }

SidesOnRow(c, gy) ==
  { s \in UNION { FacetSides(TopCell(c[1], c[2])[k]) : k \in 1 .. Len(TopCell(c[1], c[2])) } :
      \A p \in s : p[2] = Fmt(RMul(Num(gy), sy)) }

\* C22: the 4 triangles of an adaptively subdivided quad split the quad:
\* they are pushed to lines[], their footprints add up to the footprint
\* [x0,x1] x [y0,y1] of the quad (no uncovered area, no overlap), and on a
\* grid line shared with a neighbouring quad their sides are sides of the
\* neighbour's triangles.
C22_SubdivisionSplitsQuad ==
  (epc \notin {"idle", "heightmap", "top"} /\ gw >= 2 /\ gh >= 2) =>
    \A c \in TopCells :
      Subdivided(c) =>
        /\ \A k \in 1 .. 4 : \E n \in DOMAIN lines : lines[n] = TopCell(c[1], c[2])[k]
        /\ FootprintSum2(TopCell(c[1], c[2]), 1) = RMul(Num(2), RMul(sx, sy))
        /\ c[1] + 1 <= gw - 2 =>
             SidesOnColumn(c, c[1] + 1) = SidesOnColumn(<<c[1] + 1, c[2]>>, c[1] + 1)
        /\ c[2] + 1 <= gh - 2 =>
             SidesOnRow(c, c[2] + 1) = SidesOnRow(<<c[1], c[2] + 1>>, c[2] + 1)


----------------------------------------------------------------------------
(* STLGenerator.validateMesh *)

\* maxVertexIndex = (mesh.vertices.length / 3) - 1
maxVertexIndex(m) == RSub(Rat(Len(m.vertices), 3), Num(1))

\* the errors pushed by the index loop from indices[i] on
RECURSIVE IndexErrors(_, _)
IndexErrors(m, i) ==
  IF i >= Len(m.indices) THEN <<>>
  ELSE (IF RLt(maxVertexIndex(m), Num(m.indices[i + 1]))
        THEN <<[kind |-> "Invalid vertex index", index |-> m.indices[i + 1]]>>
        ELSE <<>>)
       \o IndexErrors(m, i + 1)

\* area = Math.sqrt(cross . cross) * 0.5 of the triangle starting at indices[i]
TriangleArea(m, i) ==
  LET t == GenCorners(m, i)
      cross == Cross(t[1], t[2], t[3])
  IN  RMul(Hypot(cross[1], cross[2], cross[3]), Rat(1, 2))

\* area < 1e-10: false for NaN; every positive number of the model has a
\* denominator below 2^31 and so is above 1e-10
BelowAreaEpsilon(area) == ~IsNaN(area) /\ area[1] <= 0

\* degenerateCount after the triangle loop from indices[i] on
RECURSIVE DegenerateCount(_, _)
DegenerateCount(m, i) ==
  IF i >= Len(m.indices) THEN 0
  ELSE (IF BelowAreaEpsilon(TriangleArea(m, i)) THEN 1 ELSE 0)
       + DegenerateCount(m, i + 3)

ValidationErrors(m) ==
  IndexErrors(m, 0)
  \o (IF DegenerateCount(m, 0) > 0
      THEN <<[kind |-> "degenerate triangles", count |-> DegenerateCount(m, 0)]>>
      ELSE <<>>)

ValidateMesh ==
  /\ gpc = "validateMesh"
  /\ report' = [valid |-> Len(ValidationErrors(tmd)) = 0, errors |-> ValidationErrors(tmd)]
  /\ gpc' = "validated"
  /\ UNCHANGED <<tmd, blob, gFormat, optimal, gi, gBufferIndex, buildVars, reliefVars, enhVars, ppVars, objVars, cmpVars>>

\* meshes handed to the validator: any index array, triangleCount as the
\* producer of the mesh sets it
InitValidate ==
  /\ tmd \in TriangleMeshes
  /\ blob = <<>>
  /\ report = NoReport
  /\ gpc = "validateMesh"
  /\ gFormat = "none"
  /\ optimal = NoOptimal
  /\ gi = 0
  /\ gBufferIndex = Num(0)
  /\ BuildIdle
  /\ ReliefIdle
  /\ EnhIdle
  /\ PPIdle
  /\ ObjIdle
  /\ CmpIdle

NextValidate == ValidateMesh

SpecValidate == InitValidate /\ [][NextValidate]_vars

HasError(kind) == \E k \in DOMAIN report.errors : report.errors[k].kind = kind

IndexOutOfRange(m) ==
  \E p \in DOMAIN m.indices : m.indices[p] >= Len(m.vertices) \div 3

\* some complete index triple spans a triangle of zero area
HasZeroAreaTriangle(m) ==
  \E k \in 0 .. ((Len(m.indices) \div 3) - 1) :
    LET t == GenCorners(m, 3 * k)
    IN  Cross(t[1], t[2], t[3]) = <<Num(0), Num(0), Num(0)>>

\* C11: validateMesh never throws and its list holds an entry for every
\* violated check among (a) an index >= vertexCount, (b) indices.length not
\* a multiple of 3, (c) a triangle of area below 1e-10; valid is true only
\* when none of the checks is violated.
C11_ValidateReportsAll ==
  gpc = "validated" =>
    /\ IndexOutOfRange(tmd) => HasError("Invalid vertex index")
    /\ Len(tmd.indices) % 3 # 0 => HasError("indices length")
    /\ HasZeroAreaTriangle(tmd) => HasError("degenerate triangles")
    /\ report.valid =>
         (/\ ~IndexOutOfRange(tmd)
          /\ Len(tmd.indices) % 3 = 0
          /\ ~HasZeroAreaTriangle(tmd))

\* C12: validation flags every mesh in which some undirected edge belongs to
\* a number of triangles other than 2; such a mesh is never reported without
\* a finding.
C12_NonManifoldFlagged ==
  (/\ gpc = "validated"
   /\ Len(tmd.indices) % 3 = 0
   /\ ~IndexOutOfRange(tmd)
   /\ ~EveryEdgeSharedByTwo(tmd.indices))
  => Len(report.errors) > 0

----------------------------------------------------------------------------
(* AdvancedConverterService.postProcess *)

FloatBits == 8     \* mantissa bits the model keeps of a number stored in a Float32Array
MaxIter == 16      \* iterations after which a Taubin loop that has no end is cut off
MaxFaces == 17     \* most triangles of a mesh handed to the decimation step

Infinity == <<1, 0>>

\* JavaScript truthiness of a number that may be Infinity
Truthy(a) == a = Infinity \/ ~(IsNaN(a) \/ a[1] = 0)

\* a > b where b may be Infinity and a is finite
RGt(a, b) == b # Infinity /\ RLt(b, a)

\* a store into a Float32Array: rounding to the nearest float (ties to
\* even); the build keeps 24 mantissa bits, the model FloatBits
Fround(a) ==
  IF IsNaN(a) THEN NaN
  ELSE IF a[1] = 0 THEN Num(0)
  ELSE LET ne == NormExp(Abs(a[1]), a[2], 0)
           mb == MantBits(ne[1] - ne[2], ne[2], FloatBits - 1, 0)
           up == \/ 2 * mb[2] > ne[2]
                 \/ (2 * mb[2] = ne[2] /\ mb[1] % 2 = 1)
           m  == Pow2(FloatBits - 1) + mb[1] + (IF up THEN 1 ELSE 0)
           e  == ne[3] - (FloatBits - 1)
           mag == IF e >= 0 THEN Num(m * Pow2(e)) ELSE Rat(m, Pow2(-e))
       IN  IF a[1] < 0 THEN RNeg(mag) ELSE mag

\* an element read of a typed array: undefined (NaN in arithmetic) past the end
ElemAt(arr, k) == IF k >= 0 /\ k < Len(arr) THEN arr[k + 1] ELSE NaN

\* arr[k] = x on a Float32Array: dropped when k is past the end
SetElem(arr, k, x) ==
  IF k >= 0 /\ k < Len(arr) THEN [arr EXCEPT ![k + 1] = Fround(x)] ELSE arr

lambda == Rat(1, 2)
mu == Rat(-53, 100)
DefaultIterations == 15

\* ---- buildVertexAdjacency ----

\* the keys adjacency.set(i, ...) creates: i = 0, 1, ... while i < length / 3
AdjacencyKeys(vs) == 0 .. (CeilDiv(Len(vs), 3) - 1)

\* the three entries the face loop reads at faces[i], faces[i+1], faces[i+2];
\* -1 stands for undefined
FaceTriple(fs, i) ==
  [j \in 1 .. 3 |-> IF i + j - 1 < Len(fs) THEN fs[i + j] ELSE -1]

\* adjacency.get(v)!.add(...) on a key the map does not hold is a TypeError
AdjacencyThrows(vs, fs) ==
  \E t \in 0 .. (CeilDiv(Len(fs), 3) - 1) :
    \E j \in 1 .. 3 : FaceTriple(fs, 3 * t)[j] \notin AdjacencyKeys(vs)

\* adjacency as a sequence: entry k + 1 is the Set of vertex k
buildVertexAdjacency(vs, fs) ==
  [k1 \in 1 .. CeilDiv(Len(vs), 3) |->
     { FaceTriple(fs, 3 * t)[j] :
         <<t, j>> \in { <<tt, jj>> \in (0 .. (CeilDiv(Len(fs), 3) - 1)) \X (1 .. 3) :
                          \E j2 \in (1 .. 3) \ {jj} :
                            FaceTriple(fs, 3 * tt)[j2] = k1 - 1 } }]

\* ---- applyLaplacianStep ----

\* the element an update that works in place would read
LaplacianReadUpdated(vertices, newVertices, k) == ElemAt(newVertices, k)

\* the element of the position array a vertex update reads
LaplacianRead(vertices, newVertices, k) == ElemAt(vertices, k)

RECURSIVE SumOver(_, _, _, _)
SumOver(vertices, newVertices, neighbors, off) ==
  IF neighbors = {} THEN Num(0)
  ELSE LET nb == CHOOSE x \in neighbors : \A y \in neighbors : x <= y
       IN  RAdd(LaplacianRead(vertices, newVertices, 3 * nb + off),
                SumOver(vertices, newVertices, neighbors \ {nb}, off))

\* vertices[i + off] + factor * (centroid - vertices[i + off])
Displaced(vertices, newVertices, neighbors, i, off, factor) ==
  LET centroid == RDiv(SumOver(vertices, newVertices, neighbors, off),
                       Num(Cardinality(neighbors)))
      own == LaplacianRead(vertices, newVertices, i + off)
  IN  RAdd(own, RMul(factor, RSub(centroid, own)))

\* one turn of the vertex loop: newVertices after the vertex at i
LaplacianVertex(vertices, newVertices, adjacency, i, factor) ==
  LET neighbors == adjacency[(i \div 3) + 1]
  IN  IF neighbors = {} THEN newVertices
      ELSE SetElem(SetElem(SetElem(newVertices,
             i, Displaced(vertices, newVertices, neighbors, i, 0, factor)),
             i + 1, Displaced(vertices, newVertices, neighbors, i, 1, factor)),
             i + 2, Displaced(vertices, newVertices, neighbors, i, 2, factor))

\* ---- quadricDecimation ----

\* mesh.faces[k] as new Uint32Array(newFaces) holds it: undefined becomes 0
PushedIndex(fs, k) == IF k < Len(fs) THEN fs[k + 1] ELSE 0

RECURSIVE DecimationLoop(_, _, _, _, _)
DecimationLoop(fs, targetFaces, step, i, newFaces) ==
  IF i >= Len(fs) THEN newFaces
  ELSE IF ~RLt(Rat(Len(newFaces), 3), targetFaces) THEN newFaces
  ELSE DecimationLoop(fs, targetFaces, step, i + step * 3,
         newFaces \o <<PushedIndex(fs, i), PushedIndex(fs, i + 1), PushedIndex(fs, i + 2)>>)

\* the faces of the mesh quadricDecimation returns
quadricDecimation(fs, targetFaces) ==
  LET currentFaces == Rat(Len(fs), 3)
      ratio == RDiv(targetFaces, currentFaces)
      step == RFloor(RDiv(Num(1), ratio))[1]
  IN  IF ~RLt(ratio, Num(1)) THEN fs
      ELSE DecimationLoop(fs, targetFaces, step, 0, <<>>)

\* ---- calculateWidth, scaling, centerMesh ----

RECURSIVE AxisMin(_, _, _, _)
AxisMin(vs, off, i, acc) ==
  IF i >= Len(vs) THEN acc
  ELSE AxisMin(vs, off, i + 3,
         IF acc = Infinity \/ RLt(ElemAt(vs, i + off), acc)
         THEN ElemAt(vs, i + off) ELSE acc)

RECURSIVE AxisMax(_, _, _, _)
AxisMax(vs, off, i, acc) ==
  IF i >= Len(vs) THEN acc
  ELSE AxisMax(vs, off, i + 3,
         IF acc = Infinity \/ RLt(acc, ElemAt(vs, i + off))
         THEN ElemAt(vs, i + off) ELSE acc)

\* Math.max(1e-6, max - min); without vertices max - min is -Infinity
calculateWidth(vs) ==
  IF Len(vs) = 0 THEN Rat(1, 1000000)
  ELSE LET w == RSub(AxisMax(vs, 0, 0, Infinity), AxisMin(vs, 0, 0, Infinity))
       IN  IF w[1] >= 1 /\ CeilDiv(w[2], w[1]) <= 1000000 THEN w
           ELSE Rat(1, 1000000)

\* the array after  v[i]*=scale; v[i+1]*=scale; v[i+2]=v[i+2]*scale + addBaseMM/1000
Scaled(vs, scale, addBaseMM) ==
  [k1 \in 1 .. Len(vs) |->
     IF (k1 - 1) % 3 = 2
     THEN Fround(RAdd(RMul(vs[k1], scale), RDiv(addBaseMM, Num(1000))))
     ELSE Fround(RMul(vs[k1], scale))]

\* (min + max) / 2 of one axis; the running bounds start at +1e9 and -1e9,
\* which no coordinate of the model reaches
AxisCenter(vs, off) ==
  IF Len(vs) = 0 THEN Num(0)
  ELSE RDiv(RAdd(AxisMin(vs, off, 0, Infinity), AxisMax(vs, off, 0, Infinity)), Num(2))

centerMesh(vs) ==
  [k1 \in 1 .. Len(vs) |-> Fround(RSub(vs[k1], AxisCenter(vs, (k1 - 1) % 3)))]

\* ---- the steps of postProcess ----

\* processedMesh.vertices = vs, written through the array: the caller's
\* mesh sees the write when processedMesh still holds the caller's array
WriteVertices(vs) ==
  /\ processedMesh' = [processedMesh EXCEPT !.vertices = vs]
  /\ ppMesh' = IF processedMesh.shared THEN [ppMesh EXCEPT !.vertices = vs] ELSE ppMesh

\* let processedMesh = { ...mesh } and the three clean-up steps, each of
\* which returns the mesh it was handed
PostProcessBegin ==
  /\ ppc = "postProcess"
  /\ processedMesh' = [vertices |-> ppMesh.vertices, faces |-> ppMesh.faces,
                       shared |-> TRUE]
  /\ ppc' = "smoothing"
  /\ UNCHANGED <<ppMesh, ppBefore, ppOpts, taubin, finalStats>>
  /\ UNCHANGED <<buildVars, reliefVars, genVars, enhVars, objVars, cmpVars>>

SkipSmoothing ==
  /\ ppc = "smoothing"
  /\ ~ppOpts.enableAdvancedSmoothing
  /\ ppc' = "decimation"
  /\ UNCHANGED <<ppMesh, ppBefore, ppOpts, processedMesh, taubin, finalStats>>
  /\ UNCHANGED <<buildVars, reliefVars, genVars, enhVars, objVars, cmpVars>>

\* applyTaubinSmoothing up to its loop: the copy of the vertices and the
\* adjacency table
TaubinBegin ==
  /\ ppc = "smoothing"
  /\ ppOpts.enableAdvancedSmoothing
  /\ IF AdjacencyThrows(processedMesh.vertices, processedMesh.faces)
     THEN /\ ppc' = "TypeError"
          /\ UNCHANGED taubin
     ELSE /\ ppc' = "iteration"
          /\ taubin' = [NoTaubin EXCEPT
               !.iterations = IF Truthy(ppOpts.taubinIterations)
                              THEN ppOpts.taubinIterations
                              ELSE Num(DefaultIterations),
               !.vertices = processedMesh.vertices,
               !.adjacency = buildVertexAdjacency(processedMesh.vertices,
                                                  processedMesh.faces)]
  /\ UNCHANGED <<ppMesh, ppBefore, ppOpts, processedMesh, finalStats>>
  /\ UNCHANGED <<buildVars, reliefVars, genVars, enhVars, objVars, cmpVars>>

IterationsLeft ==
  taubin.iterations = Infinity \/ RLt(Num(taubin.iter), taubin.iterations)

\* iter < iterations: tempVertices = new Float32Array(vertices) and the
\* entry into applyLaplacianStep(tempVertices, adjacency, lambda)
IterationBegin ==
  /\ ppc = "iteration"
  /\ IterationsLeft
  /\ taubin.iter < MaxIter
  /\ taubin' = [taubin EXCEPT !.tempVertices = taubin.vertices,
                              !.newVertices = taubin.vertices,
                              !.factor = lambda, !.i = 0]
  /\ ppc' = "lambda"
  /\ UNCHANGED <<ppMesh, ppBefore, ppOpts, processedMesh, finalStats>>
  /\ UNCHANGED <<buildVars, reliefVars, genVars, enhVars, objVars, cmpVars>>

\* one turn of the vertex loop of applyLaplacianStep
LaplacianStepVertex ==
  /\ ppc \in {"lambda", "mu"}
  /\ taubin.i < Len(taubin.tempVertices)
  /\ taubin' = [taubin EXCEPT
       !.newVertices = LaplacianVertex(taubin.tempVertices, taubin.newVertices,
                                       taubin.adjacency, taubin.i, taubin.factor),
       !.i = taubin.i + 3]
  /\ UNCHANGED <<ppMesh, ppBefore, ppOpts, processedMesh, finalStats, ppc>>
  /\ UNCHANGED <<buildVars, reliefVars, genVars, enhVars, objVars, cmpVars>>

\* vertices.set(newVertices) of the lambda step and the entry into the mu step
LambdaEnd ==
  /\ ppc = "lambda"
  /\ taubin.i >= Len(taubin.tempVertices)
  /\ taubin' = [taubin EXCEPT !.tempVertices = taubin.newVertices,
                              !.factor = mu, !.i = 0]
  /\ ppc' = "mu"
  /\ UNCHANGED <<ppMesh, ppBefore, ppOpts, processedMesh, finalStats>>
  /\ UNCHANGED <<buildVars, reliefVars, genVars, enhVars, objVars, cmpVars>>

\* vertices.set(newVertices) of the mu step, vertices.set(tempVertices), iter++
MuEnd ==
  /\ ppc = "mu"
  /\ taubin.i >= Len(taubin.tempVertices)
  /\ taubin' = [taubin EXCEPT !.tempVertices = taubin.newVertices,
                              !.vertices = taubin.newVertices,
                              !.iter = taubin.iter + 1]
  /\ ppc' = "iteration"
  /\ UNCHANGED <<ppMesh, ppBefore, ppOpts, processedMesh, finalStats>>
  /\ UNCHANGED <<buildVars, reliefVars, genVars, enhVars, objVars, cmpVars>>

\* return { vertices, faces: mesh.faces }: processedMesh now holds the copy
TaubinEnd ==
  /\ ppc = "iteration"
  /\ ~IterationsLeft
  /\ processedMesh' = [vertices |-> taubin.vertices, faces |-> processedMesh.faces,
                       shared |-> FALSE]
  /\ ppc' = "decimation"
  /\ UNCHANGED <<ppMesh, ppBefore, ppOpts, taubin, finalStats>>
  /\ UNCHANGED <<buildVars, reliefVars, genVars, enhVars, objVars, cmpVars>>

\* step 3 of postProcess
Decimation ==
  /\ ppc = "decimation"
  /\ processedMesh' =
       IF /\ ppOpts.enableQuadricDecimation
          /\ Truthy(ppOpts.targetFaces)
          /\ RGt(Rat(Len(processedMesh.faces), 3), ppOpts.targetFaces)
       THEN [processedMesh EXCEPT
               !.faces = quadricDecimation(processedMesh.faces, ppOpts.targetFaces)]
       ELSE processedMesh
  /\ ppc' = "creases"
  /\ UNCHANGED <<ppMesh, ppBefore, ppOpts, taubin, finalStats>>
  /\ UNCHANGED <<buildVars, reliefVars, genVars, enhVars, objVars, cmpVars>>

\* steps 4 and 5: preserveCreases and recalculateAngleWeightedNormals both
\* return the mesh they were handed
preserveCreases ==
  /\ ppc = "creases"
  /\ ppc' = "scaling"
  /\ UNCHANGED <<ppMesh, ppBefore, ppOpts, processedMesh, taubin, finalStats>>
  /\ UNCHANGED <<buildVars, reliefVars, genVars, enhVars, objVars, cmpVars>>

\* step 6: the scaling loop and centerMesh, both on processedMesh.vertices
ScaleAndCenter ==
  /\ ppc = "scaling"
  /\ LET scale == RDiv(RDiv(ppOpts.scaleToWidthMM, Num(1000)),
                       calculateWidth(processedMesh.vertices))
         sv == Scaled(processedMesh.vertices, scale, ppOpts.addBaseMM)
     IN  WriteVertices(IF ppOpts.center THEN centerMesh(sv) ELSE sv)
  /\ ppc' = "validate"
  /\ UNCHANGED <<ppBefore, ppOpts, taubin, finalStats>>
  /\ UNCHANGED <<buildVars, reliefVars, genVars, enhVars, objVars, cmpVars>>

\* step 7: AdvancedConverterService.validateMesh, then return processedMesh
ValidateAndReturn ==
  /\ ppc = "validate"
  /\ finalStats' = [manifold |-> /\ Len(processedMesh.vertices) > 0
                                 /\ Len(processedMesh.faces) > 0,
                    minThickness |-> Rat(12, 10)]
  /\ ppc' = "returned"
  /\ UNCHANGED <<ppMesh, ppBefore, ppOpts, processedMesh, taubin>>
  /\ UNCHANGED <<buildVars, reliefVars, genVars, enhVars, objVars, cmpVars>>

\* index arrays handed to postProcess: no faces, one triangle, two
\* triangles, the closed tetrahedron, a face with an index past the vertices
PPFaceArrays ==
  { <<>>, <<0, 2, 1>>, <<0, 2, 1, 0, 1, 3>>,
    <<0, 2, 1, 0, 1, 3, 0, 3, 2, 1, 2, 3>>, <<0, 1, 4>> }

OptionCombinations ==
  { [makeManifold |-> c, closeHoles |-> c, fixSelfIntersections |-> c,
     unifyNormals |-> c, scaleToWidthMM |-> w, addBaseMM |-> b, center |-> ce,
     targetFaces |-> tf, taubinIterations |-> ti, creaseAngle |-> ca,
     enableAdvancedSmoothing |-> es, enableQuadricDecimation |-> ed] :
      c \in {TRUE}, w \in {Num(1000), Num(2000)}, b \in {Num(0), Num(1000)},
      ce \in BOOLEAN, ca \in {NaN, Num(60)},
      es \in BOOLEAN, ed \in BOOLEAN,
      tf \in {NaN, Num(-1), Num(1), Num(2)},
      ti \in {NaN, Num(-1), Num(1), Infinity} }

\* a base is added together with a change of width; the option of a
\* disabled step is not read and left out (NaN)
PPOptionSets ==
  { o \in OptionCombinations :
      /\ o.addBaseMM = Num(0) <=> o.scaleToWidthMM = Num(1000)
      /\ o.enableQuadricDecimation \/ o.targetFaces = NaN
      /\ o.enableAdvancedSmoothing \/ o.taubinIterations = NaN }

InitPostProcess ==
  /\ ppMesh \in [vertices : MeshVertexSets, faces : PPFaceArrays]
  /\ ppBefore = ppMesh
  /\ ppOpts \in PPOptionSets
  /\ processedMesh = [vertices |-> <<>>, faces |-> <<>>, shared |-> FALSE]
  /\ taubin = NoTaubin
  /\ finalStats = NoFinalStats
  /\ ppc = "postProcess"
  /\ BuildIdle
  /\ ReliefIdle
  /\ GenIdle
  /\ EnhIdle
  /\ ObjIdle
  /\ CmpIdle

NextPostProcess ==
  \/ PostProcessBegin
  \/ SkipSmoothing
  \/ TaubinBegin
  \/ IterationBegin
  \/ LaplacianStepVertex
  \/ LambdaEnd
  \/ MuEnd
  \/ TaubinEnd
  \/ Decimation
  \/ preserveCreases
  \/ ScaleAndCenter
  \/ ValidateAndReturn

SpecPostProcess == InitPostProcess /\ [][NextPostProcess]_vars

\* ---- the decimation step on its own ----

RECURSIVE CyclicFaces(_)
\* n triangles over the 4 vertices: the faces of the tetrahedron, repeated
CyclicFaces(n) ==
  IF n = 0 THEN <<>>
  ELSE CyclicFaces(n - 1)
       \o <<<<0, 2, 1>>, <<0, 1, 3>>, <<0, 3, 2>>, <<1, 2, 3>>>>[((n - 1) % 4) + 1]

\* postProcess at step 3 when smoothing is disabled: processedMesh still
\* holds the caller's arrays
InitDecimate ==
  /\ ppMesh \in [vertices : MeshVertexSets,
                 faces : { CyclicFaces(n) : n \in 0 .. MaxFaces }]
  /\ ppBefore = ppMesh
  /\ ppOpts \in { o \in PPOptionSets :
                    /\ ~o.enableAdvancedSmoothing
                    /\ o.enableQuadricDecimation }
                \cup { [o EXCEPT !.targetFaces = Rat(Len(ppMesh.faces), 12)] :
                         o \in { oo \in PPOptionSets :
                                   /\ ~oo.enableAdvancedSmoothing
                                   /\ oo.enableQuadricDecimation
                                   /\ oo.targetFaces = Num(1) } }
  /\ processedMesh = [vertices |-> ppMesh.vertices, faces |-> ppMesh.faces,
                      shared |-> TRUE]
  /\ taubin = NoTaubin
  /\ finalStats = NoFinalStats
  /\ ppc = "decimation"
  /\ BuildIdle
  /\ ReliefIdle
  /\ GenIdle
  /\ EnhIdle
  /\ ObjIdle
  /\ CmpIdle

NextDecimate == Decimation

SpecDecimate == InitDecimate /\ [][NextDecimate]_vars

\* the decimation step has run with the target a quarter of the faces
DecimatedToQuarter ==
  /\ ppc = "creases"
  /\ ppOpts.targetFaces = Rat(Len(ppBefore.faces), 12)

\* C13: a mesh with N triangles decimated with target N/4 comes back with at
\* most N/4 and at least 4 triangles (stated for N >= 16, where both bounds
\* can be met).
C13_QuarterTarget ==
  (DecimatedToQuarter /\ Len(ppBefore.faces) >= 48)
  => /\ ~RLt(ppOpts.targetFaces, Rat(Len(processedMesh.faces), 3))
     /\ Len(processedMesh.faces) >= 12

\* C14: with targetFaces in 1..3 and an input of at least 4 triangles,
\* postProcess raises no error and returns a mesh of at least 4 triangles.
C14_TargetClamped ==
  (/\ ppOpts.enableQuadricDecimation
   /\ ppOpts.targetFaces \in {Num(1), Num(2), Num(3)}
   /\ Len(ppBefore.faces) >= 12)
  => /\ ppc # "TypeError"
     /\ ppc = "returned" => Len(processedMesh.faces) >= 12

\* C15: when every undirected edge of the mesh handed to the decimation is
\* shared by exactly 2 triangles, the same holds of the mesh it returns.
C15_DecimationKeepsClosed ==
  (/\ ppc = "creases"
   /\ Len(ppBefore.faces) > 0
   /\ EveryEdgeSharedByTwo(ppBefore.faces))
  => EveryEdgeSharedByTwo(processedMesh.faces)

\* C16: postProcess leaves the caller's mesh unchanged: its vertices and
\* faces arrays hold the same values after the call as before it.
C16_InputUnchanged ==
  ppc = "returned" => ppMesh = ppBefore

\* ---- the passes of applyLaplacianStep against the positions at their start ----

RECURSIVE SnapshotSum(_, _, _)
SnapshotSum(src, nbs, off) ==
  IF nbs = {} THEN Num(0)
  ELSE LET nb == CHOOSE x \in nbs : TRUE
       IN  RAdd(src[3 * nb + off + 1], SnapshotSum(src, nbs \ {nb}, off))

\* element k1 of the array a pass yields when every update reads src only
SnapshotValue(src, adjacency, k1, factor) ==
  LET nbs == adjacency[((k1 - 1) \div 3) + 1]
      off == (k1 - 1) % 3
      centroid == RDiv(SnapshotSum(src, nbs, off), Num(Cardinality(nbs)))
  IN  IF nbs = {} THEN src[k1]
      ELSE Fround(RAdd(src[k1], RMul(factor, RSub(centroid, src[k1]))))

SnapshotPass(src, adjacency, factor) ==
  [k1 \in 1 .. Len(src) |-> SnapshotValue(src, adjacency, k1, factor)]

\* C17: in every Taubin iteration the lambda step computes each position
\* from the positions before the lambda pass only, and the mu step from the
\* positions after the complete lambda pass only; no update reads a
\* neighbour already updated in the same pass.
C17_PassesReadSnapshots ==
  ppc \in {"lambda", "mu"} =>
    /\ taubin.tempVertices =
         IF ppc = "lambda" THEN taubin.vertices
         ELSE SnapshotPass(taubin.vertices, taubin.adjacency, lambda)
    /\ \A k1 \in 1 .. Len(taubin.newVertices) :
         taubin.newVertices[k1] =
           IF k1 <= taubin.i
           THEN SnapshotValue(taubin.tempVertices, taubin.adjacency, k1, taubin.factor)
           ELSE taubin.tempVertices[k1]

\* the mu pass of a second iteration has updated vertex 1 after its
\* neighbour vertex 0 was moved in the same pass
C17_Witness ==
  /\ ppc = "mu"
  /\ taubin.iter >= 1
  /\ taubin.i >= 6
  /\ 0 \in taubin.adjacency[2]
  /\ SubSeq(taubin.newVertices, 1, 3) # SubSeq(taubin.tempVertices, 1, 3)
  /\ SubSeq(taubin.newVertices, 4, 6) # SubSeq(taubin.tempVertices, 4, 6)

\* ---- crease edges of the mesh handed to postProcess ----

\* Math.cos(creaseAngleDegrees * Math.PI / 180) at the angles the model uses
CosOfDegrees(deg) ==
  IF deg = Num(60) THEN Rat(1, 2) ELSE IF deg = Num(90) THEN Num(0) ELSE NaN

FaceOf(fs, t) == <<fs[3 * t + 1], fs[3 * t + 2], fs[3 * t + 3]>>

FaceNormalOf(m, t) ==
  LET tri == FaceOf(m.faces, t)
  IN  Cross(Corner(m.vertices, Num(3 * tri[1])), Corner(m.vertices, Num(3 * tri[2])),
            Corner(m.vertices, Num(3 * tri[3])))

Dot(a, b) == RAdd(RMul(a[1], b[1]), RAdd(RMul(a[2], b[2]), RMul(a[3], b[3])))

\* the angle between two non-zero vectors exceeds the angle of cosine c >= 0
AngleExceeds(a, b, c) ==
  \/ RLt(Dot(a, b), Num(0))
  \/ RLt(RMul(Dot(a, b), Dot(a, b)), RMul(RMul(c, c), RMul(Dot(a, a), Dot(b, b))))

SharedVertices(fs, t1, t2) ==
  { fs[3 * t1 + j] : j \in 1 .. 3 } \cap { fs[3 * t2 + j] : j \in 1 .. 3 }

\* pairs of faces of m that meet in an edge across which the face normals
\* differ by more than the crease angle
CreasePairs(m, deg) ==
  { pr \in (0 .. (TriCount(m.faces) - 1)) \X (0 .. (TriCount(m.faces) - 1)) :
      /\ pr[1] < pr[2]
      /\ Cardinality(SharedVertices(m.faces, pr[1], pr[2])) = 2
      /\ AngleExceeds(FaceNormalOf(m, pr[1]), FaceNormalOf(m, pr[2]),
                      CosOfDegrees(deg)) }

HasFace(fs, tri) == \E t \in 0 .. (TriCount(fs) - 1) : FaceOf(fs, t) = tri

\* C18: with a crease angle given, the endpoints of every edge whose two
\* adjacent face normals differ by more than the angle are not moved by
\* smoothing and its adjacent faces are not removed by decimation.
C18_CreasesProtected ==
  (/\ ppc = "scaling"
   /\ Truthy(ppOpts.creaseAngle)
   /\ ~IndexOutOfRange([vertices |-> ppBefore.vertices, indices |-> ppBefore.faces]))
  => \A pr \in CreasePairs(ppBefore, ppOpts.creaseAngle) :
       /\ \A a \in SharedVertices(ppBefore.faces, pr[1], pr[2]) :
            SubSeq(processedMesh.vertices, 3 * a + 1, 3 * a + 3)
              = SubSeq(ppBefore.vertices, 3 * a + 1, 3 * a + 3)
       /\ HasFace(processedMesh.faces, FaceOf(ppBefore.faces, pr[1]))
       /\ HasFace(processedMesh.faces, FaceOf(ppBefore.faces, pr[2]))

\* C19: postProcess never fails: for every mesh and every option value it
\* returns a mesh without throwing.
C19_NeverThrows == ppc # "TypeError"

----------------------------------------------------------------------------
(* ConversionEngineService.parseOBJ *)
(* A string is a sequence of one-character strings.                        *)

MaxVerts == 3      \* most vertex lines at the head of an OBJ text
MaxLines == 2      \* most lines that follow them

DigitChars == <<"0", "1", "2", "3", "4", "5", "6", "7", "8", "9">>

IsDigit(c) == \E d \in 1 .. 10 : DigitChars[d] = c

DigitVal(c) == (CHOOSE d \in 1 .. 10 : DigitChars[d] = c) - 1

RECURSIVE TrimStart(_)
TrimStart(str) ==
  IF Len(str) > 0 /\ str[1] = " " THEN TrimStart(Tail(str)) ELSE str

RECURSIVE TrimEnd(_)
TrimEnd(str) ==
  IF Len(str) > 0 /\ str[Len(str)] = " " THEN TrimEnd(SubSeq(str, 1, Len(str) - 1))
  ELSE str

\* String.prototype.trim
Trim(str) == TrimEnd(TrimStart(str))

StartsWith(str, prefix) ==
  Len(str) >= Len(prefix) /\ SubSeq(str, 1, Len(prefix)) = prefix

\* str.split(sep)[0] for a one-character separator
RECURSIVE UpTo(_, _)
UpTo(str, sep) ==
  IF Len(str) = 0 \/ str[1] = sep THEN <<>>
  ELSE <<str[1]>> \o UpTo(Tail(str), sep)

\* line.split(/\s+/) of a trimmed line
RECURSIVE SplitSpaces(_)
SplitSpaces(str) ==
  LET first == UpTo(str, " ")
      rest == TrimStart(SubSeq(str, Len(first) + 1, Len(str)))
  IN  IF Len(rest) = 0 THEN <<first>> ELSE <<first>> \o SplitSpaces(rest)

\* the digits at the head of str
RECURSIVE DigitRun(_)
DigitRun(str) ==
  IF Len(str) > 0 /\ IsDigit(str[1]) THEN <<str[1]>> \o DigitRun(Tail(str)) ELSE <<>>

RECURSIVE DigitsValue(_, _)
DigitsValue(ds, acc) ==
  IF Len(ds) = 0 THEN acc ELSE DigitsValue(Tail(ds), 10 * acc + DigitVal(ds[1]))

Unsigned(str) == IF Len(str) > 0 /\ str[1] \in {"-", "+"} THEN Tail(str) ELSE str

SignOf(str) == IF Len(str) > 0 /\ str[1] = "-" THEN -1 ELSE 1

\* parseInt(str): an optional sign and the digits that follow; NaN without a digit
ParseInt(str) ==
  LET ds == DigitRun(Unsigned(TrimStart(str)))
  IN  IF Len(ds) = 0 THEN NaN
      ELSE Num(SignOf(TrimStart(str)) * DigitsValue(ds, 0))

RECURSIVE Pow10(_)
Pow10(k) == IF k = 0 THEN 1 ELSE 10 * Pow10(k - 1)

\* parseFloat(str) for decimal notation: sign, digits, '.', digits
ParseFloat(str) ==
  LET body == Unsigned(TrimStart(str))
      ip == DigitRun(body)
      after == SubSeq(body, Len(ip) + 1, Len(body))
      fp == IF Len(after) > 0 /\ after[1] = "." THEN DigitRun(Tail(after)) ELSE <<>>
  IN  IF Len(ip) = 0 /\ Len(fp) = 0 THEN NaN
      ELSE RMul(Num(SignOf(TrimStart(str))),
                RAdd(Num(DigitsValue(ip, 0)), Rat(DigitsValue(fp, 0), Pow10(Len(fp)))))

\* the indices[] of a face line: for every part after 'f' whose parseInt is
\* a number, vertexIndex > 0 ? vertexIndex - 1 : vertexIndex
RECURSIVE FaceIndices(_, _)
FaceIndices(parts, j) ==
  IF j > Len(parts) THEN <<>>
  ELSE LET vertexIndex == ParseInt(UpTo(parts[j], "/"))
       IN  (IF IsNaN(vertexIndex) THEN <<>>
            ELSE <<IF vertexIndex[1] > 0 THEN vertexIndex[1] - 1 ELSE vertexIndex[1]>>)
           \o FaceIndices(parts, j + 1)

\* the range test without its lower bound
InRangeNoLowerBound(ix, maxIndex) == ix <= maxIndex

\* i >= 0 && i <= maxVertexIndex
InRange(ix, maxIndex) == ix >= 0 /\ ix <= maxIndex

\* the triangle fan over indices[] from t on: <<faces pushed, triangles rejected>>
RECURSIVE Fan(_, _, _)
Fan(ixs, t, maxIndex) ==
  IF t >= Len(ixs) - 1 THEN <<<<>>, 0>>
  ELSE LET i1 == ixs[1]
           i2 == ixs[t + 1]
           i3 == ixs[t + 2]
           rest == Fan(ixs, t + 1, maxIndex)
       IN  IF /\ InRange(i1, maxIndex) /\ InRange(i2, maxIndex) /\ InRange(i3, maxIndex)
              /\ i1 # i2 /\ i2 # i3 /\ i1 # i3
           THEN <<<<i1, i2, i3>> \o rest[1], rest[2]>>
           ELSE <<rest[1], rest[2] + 1>>

CurrentLine == Trim(objLines[oi + 1])

\* a line that starts with 'v '
ParseVertexLine ==
  /\ opc = "lines"
  /\ oi < Len(objLines)
  /\ StartsWith(CurrentLine, <<"v", " ">>)
  /\ LET parts == SplitSpaces(CurrentLine)
         ok == /\ Len(parts) >= 4
               /\ ~IsNaN(ParseFloat(parts[2]))
               /\ ~IsNaN(ParseFloat(parts[3]))
               /\ ~IsNaN(ParseFloat(parts[4]))
     IN  /\ oVertices' = IF ok
                         THEN oVertices \o <<ParseFloat(parts[2]), ParseFloat(parts[3]),
                                             ParseFloat(parts[4])>>
                         ELSE oVertices
         /\ vertexCount' = IF ok THEN vertexCount + 1 ELSE vertexCount
  /\ oi' = oi + 1
  /\ UNCHANGED <<objLines, oFaces, faceCount, invalidFaceCount, opc>>
  /\ UNCHANGED <<buildVars, reliefVars, genVars, enhVars, ppVars, cmpVars>>

\* a line that starts with 'f '
ParseFaceLine ==
  /\ opc = "lines"
  /\ oi < Len(objLines)
  /\ StartsWith(CurrentLine, <<"f", " ">>)
  /\ LET parts == SplitSpaces(CurrentLine)
         ixs == FaceIndices(parts, 2)
         fan == Fan(ixs, 1, vertexCount - 1)
     IN  IF Len(parts) < 4
         THEN UNCHANGED <<oFaces, faceCount, invalidFaceCount>>
         ELSE IF Len(ixs) < 3
         THEN /\ invalidFaceCount' = invalidFaceCount + 1
              /\ UNCHANGED <<oFaces, faceCount>>
         ELSE /\ oFaces' = oFaces \o fan[1]
              /\ faceCount' = faceCount + (Len(fan[1]) \div 3)
              /\ invalidFaceCount' = invalidFaceCount + fan[2]
  /\ oi' = oi + 1
  /\ UNCHANGED <<objLines, oVertices, vertexCount, opc>>
  /\ UNCHANGED <<buildVars, reliefVars, genVars, enhVars, ppVars, cmpVars>>

\* any other line
SkipLine ==
  /\ opc = "lines"
  /\ oi < Len(objLines)
  /\ ~StartsWith(CurrentLine, <<"v", " ">>)
  /\ ~StartsWith(CurrentLine, <<"f", " ">>)
  /\ oi' = oi + 1
  /\ UNCHANGED <<objLines, oVertices, oFaces, vertexCount, faceCount,
                 invalidFaceCount, opc>>
  /\ UNCHANGED <<buildVars, reliefVars, genVars, enhVars, ppVars, cmpVars>>

\* the final validation: an Error without a vertex, else { vertices, faces }
ParseEnd ==
  /\ opc = "lines"
  /\ oi >= Len(objLines)
  /\ opc' = IF vertexCount = 0 THEN "Error" ELSE "returned"
  /\ UNCHANGED <<objLines, oi, oVertices, oFaces, vertexCount, faceCount,
                 invalidFaceCount>>
  /\ UNCHANGED <<buildVars, reliefVars, genVars, enhVars, ppVars, cmpVars>>

\* a line built of its words, one space between them
RECURSIVE Words(_)
Words(ws) ==
  IF Len(ws) = 0 THEN <<>>
  ELSE IF Len(ws) = 1 THEN ws[1]
  ELSE ws[1] \o <<" ">> \o Words(Tail(ws))

VertexLine == Words(<<<<"v">>, <<"1">>, <<"-", "2">>, <<"0", ".", "5">>>>)

\* lines of an OBJ text: vertices (well-formed, with a coordinate that is no
\* number, with surrounding blanks), faces (a triangle, a quadrilateral,
\* index 0, negative indices, a repeated index, v/vt/vn references, an index
\* that is no number, an index past the vertices, too few indices), a normal
OBJLineChoices ==
  { VertexLine,
    Words(<<<<"v">>, <<"x">>, <<"0">>, <<"0">>>>),
    <<" ", " ">> \o Words(<<<<"v">>, <<"0">>, <<" ", "0">>, <<"1">>>>) \o <<" ">>,
    Words(<<<<"f">>, <<"1">>, <<"2">>, <<"3">>>>),
    Words(<<<<"f">>, <<"1">>, <<"2">>, <<"3">>, <<"4">>>>),
    Words(<<<<"f">>, <<"0">>, <<"2">>, <<"3">>>>),
    Words(<<<<"f">>, <<"-", "1">>, <<"-", "2">>, <<"-", "3">>>>),
    Words(<<<<"f">>, <<"1">>, <<"1">>, <<"2">>>>),
    Words(<<<<"f">>, <<"3", "/", "1", "/", "1">>, <<"2", "/", "/", "1">>, <<"1", "/", "2">>>>),
    Words(<<<<"f">>, <<"1">>, <<"x">>, <<"2">>, <<"3">>>>),
    Words(<<<<"f">>, <<"1">>, <<"2">>, <<"1", "0">>>>),
    Words(<<<<"f">>, <<"1">>, <<"2">>>>),
    Words(<<<<"v", "n">>, <<"0">>, <<"0">>, <<"1">>>>) }

OBJTexts ==
  { [k \in 1 .. nv |-> VertexLine] \o more :
      nv \in 0 .. MaxVerts,
      more \in UNION { [1 .. n -> OBJLineChoices] : n \in 0 .. MaxLines } }

InitOBJ ==
  /\ objLines \in OBJTexts
  /\ oi = 0
  /\ oVertices = <<>>
  /\ oFaces = <<>>
  /\ vertexCount = 0
  /\ faceCount = 0
  /\ invalidFaceCount = 0
  /\ opc = "lines"
  /\ BuildIdle
  /\ ReliefIdle
  /\ GenIdle
  /\ EnhIdle
  /\ PPIdle
  /\ CmpIdle

NextOBJ ==
  \/ ParseVertexLine
  \/ ParseFaceLine
  \/ SkipLine
  \/ ParseEnd

SpecOBJ == InitOBJ /\ [][NextOBJ]_vars

\* C20: every mesh parseOBJ returns has faces.length a multiple of 3, every
\* face index an integer in [0, number of parsed vertices) and no triangle
\* with a repeated vertex index.
C20_ParsedMeshInvariants ==
  opc = "returned" =>
    /\ Len(oFaces) % 3 = 0
    /\ \A p \in DOMAIN oFaces :
         oFaces[p] \in 0 .. ((Len(oVertices) \div 3) - 1)
    /\ \A t \in 0 .. ((Len(oFaces) \div 3) - 1) :
         Cardinality({oFaces[3 * t + 1], oFaces[3 * t + 2], oFaces[3 * t + 3]}) = 3

\* a text was parsed whose faces were partly kept (two triangles at least)
\* and partly rejected
C20_Witness ==
  /\ opc = "returned"
  /\ Len(oFaces) >= 6
  /\ invalidFaceCount > 0

----------------------------------------------------------------------------
(* Converter component: the 3D viewer (setPreviewMode, ensureThree,        *)
(* startThreeLoop, setPreviewMesh) and the quality selector.  The 2D       *)
(* canvases, the counters shown in the template and the camera are not     *)
(* part of the model; no bitmap is loaded (lastBitmap is undefined).       *)

MaxPending == 2    \* most ensureThree promises that are outstanding at a time

NoIndex == [kind |-> "none", array |-> <<>>]

\* geometry.attributes.position.count: array.length / itemSize
positionCount(m) == m.position.length \div 3

\* validateMesh(mesh): the position attribute is checked, the index only logged
validateMesh(m) == m.position.present /\ m.position.length > 0

RECURSIVE SeqMax(_, _)
SeqMax(a, k) ==
  IF k > Len(a) THEN -1
  ELSE LET rest == SeqMax(a, k + 1) IN IF a[k] > rest THEN a[k] ELSE rest

\* the position checks of the render loop: meshValid = false
MeshInvalid(m) == ~m.position.present \/ m.position.length = 0

\* the index repairs of the render loop, which include the range check
LoopRepair(m) ==
  IF m.index.kind = "none" THEN m
  ELSE IF m.index.kind = "nullArray" THEN [m EXCEPT !.index = NoIndex]
  ELSE IF Len(m.index.array) = 0 THEN [m EXCEPT !.index = NoIndex]
  ELSE IF m.position.present /\ SeqMax(m.index.array, 1) >= positionCount(m)
       THEN [m EXCEPT !.index = NoIndex]
  ELSE m

\* the repairs of setPreviewMesh before its single render: a missing or
\* empty index array only
SingleRepair(m) ==
  IF m.index.kind = "nullArray" \/ (m.index.kind = "array" /\ Len(m.index.array) = 0)
  THEN [m EXCEPT !.index = NoIndex]
  ELSE m

cleanupInvalidMeshes(sc) == SelectSeq(sc, LAMBDA m : ~MeshInvalid(m))

\* one run of loop(): _raf is requested, the scene is traversed and
\* repaired, and it is rendered unless a mesh is invalid
LoopBody(sc, rs) ==
  LET repaired == [k \in DOMAIN sc |-> LoopRepair(sc[k])]
  IN  IF \E k \in DOMAIN sc : MeshInvalid(sc[k])
      THEN [scene |-> cleanupInvalidMeshes(repaired), raf |-> FALSE, renders |-> rs]
      ELSE [scene |-> repaired, raf |-> TRUE,
            renders |-> Append(rs, [by |-> "loop", scene |-> repaired])]

\* startThreeLoop(): returns at once without renderer, scene and camera
startThreeLoop(sc, rs, oldRaf) ==
  IF ~threeInit THEN [scene |-> sc, raf |-> oldRaf, renders |-> rs]
  ELSE LoopBody(sc, rs)

PreviewModes == {"image", "relief", "3d"}

setPreviewMode(m) ==
  /\ m = "3d" => pendingInit < MaxPending
  /\ raf' = FALSE
  /\ previewMode' = m
  /\ renders' = <<>>
  /\ IF m = "3d"
     THEN /\ ready3D' = FALSE
          /\ scene' = cleanupInvalidMeshes(scene)
          /\ pendingInit' = pendingInit + 1
     ELSE UNCHANGED <<ready3D, scene, pendingInit>>
  /\ UNCHANGED <<threeInit, viewError, qualityVars>>

SetPreviewMode ==
  /\ \E m \in PreviewModes : setPreviewMode(m)
  /\ UNCHANGED <<uploadVars, hqVars, guardVars, engineVars>>

\* the promise of ensureThree resolves: the then-callback of setPreviewMode
EnsureThreeResolves ==
  /\ pendingInit > 0
  /\ pendingInit' = pendingInit - 1
  /\ threeInit' = TRUE
  /\ IF scene # <<>>
     THEN IF validateMesh(scene[1])
          THEN LET r == LoopBody(scene, <<>>)
               IN  /\ ready3D' = TRUE
                   /\ scene' = r.scene
                   /\ raf' = r.raf
                   /\ renders' = r.renders
                   /\ UNCHANGED viewError
          ELSE /\ scene' = cleanupInvalidMeshes(scene)
               /\ viewError' = "Invalid 3D model data detected"
               /\ renders' = <<>>
               /\ UNCHANGED <<ready3D, raf>>
     ELSE /\ renders' = <<>>
          /\ UNCHANGED <<ready3D, scene, raf, viewError>>
  /\ UNCHANGED <<previewMode, qualityVars, uploadVars, hqVars, guardVars, engineVars>>

\* the promise of ensureThree rejects: the catch-callback of setPreviewMode
EnsureThreeRejects ==
  /\ pendingInit > 0
  /\ pendingInit' = pendingInit - 1
  /\ viewError' = "Error initializing 3D viewer"
  /\ renders' = <<>>
  /\ UNCHANGED <<previewMode, threeInit, scene, raf, ready3D, qualityVars,
                 uploadVars, hqVars, guardVars, engineVars>>

\* the animation frame requested by loop() fires
LoopFrame ==
  /\ raf
  /\ LET r == LoopBody(scene, <<>>)
     IN  /\ scene' = r.scene
         /\ raf' = r.raf
         /\ renders' = r.renders
  /\ UNCHANGED <<previewMode, threeInit, pendingInit, ready3D, viewError, qualityVars,
                 uploadVars, hqVars, guardVars, engineVars>>

\* meshes handed to setPreviewMesh: 3 vertices or none, and an index that
\* is absent, has no array, is empty, in range, or out of range
PreviewMeshes ==
  [position : [present : BOOLEAN, length : {0, 9}],
   index : {NoIndex, [kind |-> "nullArray", array |-> <<>>]}
           \cup [kind : {"array"}, array : {<<>>, <<0, 1, 2>>, <<0, 2, 5>>}]]

setPreviewMesh(newMesh) ==
  /\ threeInit
  /\ IF ~validateMesh(newMesh)
     THEN /\ viewError' = "Invalid 3D model data received"
          /\ renders' = <<>>
          /\ UNCHANGED <<scene, raf>>
     ELSE LET r == IF previewMode = "3d"
                   THEN startThreeLoop(<<newMesh>>, <<>>, FALSE)
                   ELSE [scene |-> <<newMesh>>, raf |-> FALSE, renders |-> <<>>]
              fixed == [k \in DOMAIN r.scene |-> SingleRepair(r.scene[k])]
          IN  /\ scene' = fixed
              /\ raf' = r.raf
              /\ renders' = Append(r.renders, [by |-> "single", scene |-> fixed])
              /\ UNCHANGED viewError
  /\ UNCHANGED <<previewMode, threeInit, pendingInit, ready3D, qualityVars>>

SetPreviewMesh ==
  /\ \E newMesh \in PreviewMeshes : setPreviewMesh(newMesh)
  /\ UNCHANGED <<uploadVars, hqVars, guardVars, engineVars>>

\* ---- quality selector ----

\* the relief tab's fixed number of samples
qualitySamples(level) == 150

model3dSampleMax(level) ==
  CASE level = "normal" -> 300
    [] level = "alta" -> 700
    [] level = "maxima" -> 1000
    [] OTHER -> 700

\* getModel3DParams().targetFaces
targetFaces(level) == Max2(25000, model3dSampleMax(level) * 500)

\* calculateTargetFaces of test_quality_values.js
calculateTargetFaces(qualityLevel) ==
  LET sampleMax == CASE qualityLevel = "normal" -> 300
                     [] qualityLevel = "alta" -> 700
                     [] qualityLevel = "maxima" -> 1000
                     [] OTHER -> 700
  IN  Max2(25000, sampleMax * 500)

\* values of the quality slider and the levels of the selector; "ultra"
\* stands for a value outside the three levels
SliderValues == {100, 250, 251, 425, 426, 600}

QualityLevels == {"normal", "alta", "maxima", "ultra"}

OnQualitySliderChange ==
  /\ \E value \in SliderValues :
       IF previewMode = "3d"
       THEN /\ model3dQualityLevel' = (IF value <= 250 THEN "normal"
                                       ELSE IF value <= 425 THEN "alta" ELSE "maxima")
            /\ UNCHANGED reliefQualityThreshold
       ELSE /\ reliefQualityThreshold' = Rat(value, 600)
            /\ UNCHANGED model3dQualityLevel
  /\ UNCHANGED <<model3dParams, viewerVars, uploadVars, hqVars, guardVars, engineVars>>

OnQualityLevelChange ==
  /\ \E level \in QualityLevels : model3dQualityLevel' = level
  /\ UNCHANGED <<reliefQualityThreshold, model3dParams, viewerVars,
                 uploadVars, hqVars, guardVars, engineVars>>

GetModel3DParams ==
  /\ model3dParams' = [targetFaces |-> targetFaces(model3dQualityLevel)]
  /\ UNCHANGED <<model3dQualityLevel, reliefQualityThreshold, viewerVars,
                 uploadVars, hqVars, guardVars, engineVars>>

InitViewer ==
  /\ ViewIdle
  /\ UploadIdle
  /\ HqIdle
  /\ GuardIdle
  /\ EngineIdle

NextViewer ==
  \/ SetPreviewMode
  \/ EnsureThreeResolves
  \/ EnsureThreeRejects
  \/ LoopFrame
  \/ SetPreviewMesh

SpecViewer == InitViewer /\ [][NextViewer]_vars

NextQuality ==
  \/ SetPreviewMode
  \/ OnQualitySliderChange
  \/ OnQualityLevelChange
  \/ GetModel3DParams

SpecQuality == InitViewer /\ [][NextQuality]_vars

IndexRenderable(m) ==
  \/ m.index.kind = "none"
  \/ /\ m.index.kind = "array"
     /\ Len(m.index.array) > 0
     /\ \A k \in DOMAIN m.index.array : m.index.array[k] < positionCount(m)

C27_LoopOnlyIn3D ==
  raf => previewMode = "3d"

\* C25: for every quality level the targetFaces of the component's 3D
\* parameters equals calculateTargetFaces of the test: 150000 for 'normal',
\* 350000 for 'alta', 500000 for 'maxima', 350000 for any other value.
C25_TargetFacesAsTest ==
  [][GetModel3DParams =>
       /\ model3dParams'.targetFaces = calculateTargetFaces(model3dQualityLevel)
       /\ model3dQualityLevel = "normal" => model3dParams'.targetFaces = 150000
       /\ model3dQualityLevel = "alta" => model3dParams'.targetFaces = 350000
       /\ model3dQualityLevel = "maxima" => model3dParams'.targetFaces = 500000
       /\ model3dQualityLevel = "ultra" => model3dParams'.targetFaces = 350000]_vars

C25_Witness ==
  /\ model3dQualityLevel = "maxima"
  /\ model3dParams.targetFaces = 500000

----------------------------------------------------------------------------
(* Converter component: upload() of the relief tab and its progress bar.   *)
(* convertImage is an HTTP request: it delivers its blob or its error in   *)
(* a later task.                                                           *)

MaxInflight == 3   \* most relief conversions requested and not yet settled

\* the values Math.floor(currentProgress) is taken to pass through
ProgressMarks == {10, 15, 24, 25, 49, 50, 60, 74, 75, 85}

\* onFileSelected(event) with a file chosen: the file, the error and the
\* downloads of the earlier image
OnFileSelected ==
  /\ upFile' = TRUE
  /\ upError' = "none"
  /\ reliefDownloadUrl' = FALSE
  /\ UNCHANGED <<reliefLoading, reliefProcessActive, lastConversion, loadingProgress,
                 loadingInterval, inflight, timers,
                 viewerVars, qualityVars, hqVars, guardVars, engineVars>>

\* upload()
UploadRelief ==
  /\ inflight + timers < MaxInflight
  /\ IF ~upFile
     THEN /\ upError' = "Por favor selecciona una imagen primero"
          /\ UNCHANGED <<reliefLoading, reliefProcessActive, lastConversion,
                         reliefDownloadUrl, loadingProgress, loadingInterval, inflight>>
     ELSE /\ reliefLoading' = TRUE
          /\ reliefProcessActive' = TRUE
          /\ upError' = "none"
          /\ lastConversion' = "relief"
          /\ reliefDownloadUrl' = FALSE
          /\ loadingProgress' = 5
          /\ loadingInterval' = TRUE
          /\ inflight' = inflight + 1
  /\ UNCHANGED <<upFile, timers, viewerVars, qualityVars, hqVars, guardVars, engineVars>>

\* the callback of the interval set by startLoadingProgress
ProgressTick ==
  /\ loadingInterval
  /\ loadingProgress < 85
  /\ \E p \in ProgressMarks : p > loadingProgress /\ loadingProgress' = p
  /\ UNCHANGED <<upFile, reliefLoading, reliefProcessActive, lastConversion,
                 reliefDownloadUrl, loadingInterval, inflight, timers, upError,
                 viewerVars, qualityVars, hqVars, guardVars, engineVars>>

\* next: of the subscription
ReliefDelivered ==
  /\ inflight > 0
  /\ inflight' = inflight - 1
  /\ loadingInterval' = FALSE
  /\ loadingProgress' = 100
  /\ reliefProcessActive' = FALSE
  /\ timers' = timers + 1
  /\ UNCHANGED <<upFile, reliefLoading, lastConversion, reliefDownloadUrl, upError,
                 viewerVars, qualityVars, hqVars, guardVars, engineVars>>

\* error: of the subscription
ReliefFailed ==
  /\ inflight > 0
  /\ inflight' = inflight - 1
  /\ upError' = "Error en conversion de relieve"
  /\ reliefLoading' = FALSE
  /\ reliefProcessActive' = FALSE
  /\ loadingProgress' = 0
  /\ loadingInterval' = FALSE
  /\ UNCHANGED <<upFile, lastConversion, reliefDownloadUrl, timers,
                 viewerVars, qualityVars, hqVars, guardVars, engineVars>>

\* the callback of setTimeout(..., 1500) set when a blob was delivered
CompletionTimeout ==
  /\ timers > 0
  /\ timers' = timers - 1
  /\ reliefDownloadUrl' = TRUE
  /\ reliefLoading' = FALSE
  /\ loadingProgress' = 0
  /\ loadingInterval' = FALSE
  /\ UNCHANGED <<upFile, reliefProcessActive, lastConversion, inflight, upError,
                 viewerVars, qualityVars, hqVars, guardVars, engineVars>>

InitUpload ==
  /\ upFile = FALSE
  /\ reliefLoading = FALSE
  /\ reliefProcessActive = FALSE
  /\ lastConversion = "none"
  /\ reliefDownloadUrl = FALSE
  /\ loadingProgress = 0
  /\ loadingInterval = FALSE
  /\ inflight = 0
  /\ timers = 0
  /\ upError = "none"
  /\ ViewIdle
  /\ HqIdle
  /\ GuardIdle
  /\ EngineIdle

NextUpload ==
  \/ OnFileSelected
  \/ UploadRelief
  \/ ProgressTick
  \/ ReliefDelivered
  \/ ReliefFailed
  \/ CompletionTimeout

SpecUpload == InitUpload /\ [][NextUpload]_vars

\* C26: reliefLoading() is true whenever a relief conversion started by
\* upload() has not yet delivered its result or its error, also when
\* upload() was invoked again before an earlier conversion finished or
\* within the 1500 ms delay after an earlier conversion delivered.
C26_LoadingWhilePending ==
  inflight > 0 => reliefLoading

----------------------------------------------------------------------------
(* Backend: the handler of POST /api/convert-hq *)

AllowedTypes == {"image/png", "image/jpeg", "image/jpg", "image/gif"}

HqRequests ==
  [file : BOOLEAN, contentType : {"none", "image/png", "image/jpeg", "image/bmp"},
   format : {"stl", "glb", "obj"}]

HqReturn(status) ==
  /\ hqStatus' = status
  /\ hpc' = "returned"

\* from the start of the handler to the first await of the Python branch
HqReceive ==
  /\ hpc = "request"
  /\ IF ~hqReq.file
     THEN HqReturn(400) /\ UNCHANGED tmpDir
     ELSE IF hqReq.contentType # "none" /\ hqReq.contentType \notin AllowedTypes
     THEN HqReturn(415) /\ UNCHANGED tmpDir
     ELSE IF ~pythonHqEnabled
     THEN (\E ok \in BOOLEAN : HqReturn(IF ok THEN 200 ELSE 500)) /\ UNCHANGED tmpDir
     ELSE \/ /\ tmpDir' = TRUE          \* Deno.makeTempDir
             /\ hpc' = "stage"
             /\ UNCHANGED hqStatus
          \/ /\ HqReturn(500)           \* Deno.makeTempDir throws
             /\ UNCHANGED tmpDir
  /\ UNCHANGED <<hqReq, pythonHqEnabled, outFile,
                 viewerVars, qualityVars, uploadVars, guardVars, engineVars>>

\* reading the upload and writing it to inPath
HqStage ==
  /\ hpc = "stage"
  /\ \/ /\ hpc' = "python"
        /\ UNCHANGED hqStatus
     \/ HqReturn(500)
  /\ UNCHANGED <<hqReq, pythonHqEnabled, tmpDir, outFile,
                 viewerVars, qualityVars, uploadVars, guardVars, engineVars>>

\* await p.output(): exit code 0 with or without an output file, another
\* exit code, or the command cannot be spawned
HqPython ==
  /\ hpc = "python"
  /\ \/ /\ outFile' \in BOOLEAN
        /\ hpc' = "respond"
        /\ UNCHANGED hqStatus
     \/ /\ HqReturn(500)
        /\ UNCHANGED outFile
  /\ UNCHANGED <<hqReq, pythonHqEnabled, tmpDir,
                 viewerVars, qualityVars, uploadVars, guardVars, engineVars>>

\* reading outPath, the response, and the finally block that removes tmpDir
HqRespond ==
  /\ hpc = "respond"
  /\ HqReturn(IF outFile THEN 200 ELSE 500)
  /\ tmpDir' = FALSE
  /\ outFile' = FALSE
  /\ UNCHANGED <<hqReq, pythonHqEnabled,
                 viewerVars, qualityVars, uploadVars, guardVars, engineVars>>

InitHq ==
  /\ hqReq \in HqRequests
  /\ pythonHqEnabled \in BOOLEAN
  /\ tmpDir = FALSE
  /\ outFile = FALSE
  /\ hqStatus = 0
  /\ hpc = "request"
  /\ ViewIdle
  /\ UploadIdle
  /\ GuardIdle
  /\ EngineIdle

NextHq ==
  \/ HqReceive
  \/ HqStage
  \/ HqPython
  \/ HqRespond

SpecHq == InitHq /\ [][NextHq]_vars

\* C28: every temporary directory the /convert-hq handler creates is
\* removed by the time the handler returns, on every exit path: staging
\* failure, non-zero Python exit, output read failure and success.
C28_TempDirRemoved ==
  hpc = "returned" => ~tmpDir

----------------------------------------------------------------------------
(* Converter component whose conversions are guarded by isLoading:         *)
(* upload, uploadHQ, convert3D, and the preview renders whose failure      *)
(* calls setError.  The file is a raster image (is3ds() is false).         *)

MaxRunning == 2    \* most conversions awaited at a time
MaxPreviews == 1   \* most preview renders awaited at a time

\* resetError(); isLoading.set(true); downloadUrl.set(null); the awaited
\* conversion starts
StartConversion(kind) ==
  /\ gFile /\ ~isLoading
  /\ Len(running) < MaxRunning
  /\ gError' = "none"
  /\ isLoading' = TRUE
  /\ gDownloadUrl' = "none"
  /\ running' = Append(running, kind)

Upload ==
  /\ StartConversion("upload")
  /\ UNCHANGED <<gFile, gMode, previews, gLastConversion,
                 viewerVars, qualityVars, uploadVars, hqVars, engineVars>>

UploadHQ ==
  /\ StartConversion("uploadHQ")
  /\ UNCHANGED <<gFile, gMode, previews, gLastConversion,
                 viewerVars, qualityVars, uploadVars, hqVars, engineVars>>

\* convert3D forces the 3D tab when its container is not rendered
Convert3D ==
  /\ StartConversion("convert3D")
  /\ IF gMode # "3d"
     THEN /\ previews < MaxPreviews
          /\ gMode' = "3d"
          /\ previews' = previews + 1
     ELSE UNCHANGED <<gMode, previews>>
  /\ UNCHANGED <<gFile, gLastConversion,
                 viewerVars, qualityVars, uploadVars, hqVars, engineVars>>

Without(s, k) == SubSeq(s, 1, k - 1) \o SubSeq(s, k + 1, Len(s))

\* the awaited promise of a conversion resolves: try block, then finally
ConversionResolves ==
  /\ \E k \in DOMAIN running :
       /\ running' = Without(running, k)
       /\ gDownloadUrl' = running[k]
       /\ gLastConversion' = (IF running[k] = "upload" THEN "relief" ELSE "3d")
  /\ isLoading' = FALSE
  /\ UNCHANGED <<gFile, gMode, previews, gError,
                 viewerVars, qualityVars, uploadVars, hqVars, engineVars>>

\* the awaited promise rejects: catch block (setError), then finally
ConversionRejects ==
  /\ \E k \in DOMAIN running : running' = Without(running, k)
  /\ gError' = "error"
  /\ isLoading' = FALSE
  /\ UNCHANGED <<gFile, gMode, previews, gDownloadUrl, gLastConversion,
                 viewerVars, qualityVars, uploadVars, hqVars, engineVars>>

\* acceptFile(f): the preview of the current tab is rendered
AcceptFile ==
  /\ previews < MaxPreviews
  /\ gFile' = TRUE
  /\ gError' = "none"
  /\ gDownloadUrl' = "none"
  /\ previews' = previews + 1
  /\ UNCHANGED <<gMode, isLoading, running, gLastConversion,
                 viewerVars, qualityVars, uploadVars, hqVars, engineVars>>

\* setPreviewMode(mode) of this component: re-renders the preview of a file
GuardedSetPreviewMode ==
  /\ \E m \in PreviewModes : gMode' = m
  /\ IF gFile
     THEN previews < MaxPreviews /\ previews' = previews + 1
     ELSE UNCHANGED previews
  /\ UNCHANGED <<gFile, isLoading, running, gDownloadUrl, gLastConversion, gError,
                 viewerVars, qualityVars, uploadVars, hqVars, engineVars>>

PreviewResolves ==
  /\ previews > 0
  /\ previews' = previews - 1
  /\ UNCHANGED <<gFile, gMode, isLoading, running, gDownloadUrl, gLastConversion, gError,
                 viewerVars, qualityVars, uploadVars, hqVars, engineVars>>

\* renderPreview or render3DPreview rejects: .catch((e) => this.setError(e))
PreviewRejects ==
  /\ previews > 0
  /\ previews' = previews - 1
  /\ gError' = "error"
  /\ isLoading' = FALSE
  /\ UNCHANGED <<gFile, gMode, running, gDownloadUrl, gLastConversion,
                 viewerVars, qualityVars, uploadVars, hqVars, engineVars>>

InitGuarded ==
  /\ GuardIdle
  /\ ViewIdle
  /\ UploadIdle
  /\ HqIdle
  /\ EngineIdle

NextGuarded ==
  \/ Upload
  \/ UploadHQ
  \/ Convert3D
  \/ ConversionResolves
  \/ ConversionRejects
  \/ AcceptFile
  \/ GuardedSetPreviewMode
  \/ PreviewResolves
  \/ PreviewRejects

SpecGuarded == InitGuarded /\ [][NextGuarded]_vars

\* C29: in the component whose upload, uploadHQ and convert3D are guarded
\* by isLoading at most one conversion is in progress at a time, and
\* isLoading() is false again once the conversion has settled; a call made
\* while isLoading() is true starts nothing.
C29_OneConversionAtATime ==
  /\ Len(running) <= 1
  /\ running = <<>> => ~isLoading


====
